---- MODULE Spec2Model ----
(***************************************************************************)
(* Combat core of the first-person shooter: the weapon/loadout state       *)
(* machine (WeaponSystem), the Damageable entities (Enemy and its          *)
(* variants, Player) and the wave/spawn director (LevelManager).           *)
(*                                                                         *)
(* Objects are records whose fields carry the names of the source fields;  *)
(* every method is an operator from the object (or the world) before the   *)
(* call to the object after it, so that a handler that calls other methods *)
(* is the composition of their operators.                                  *)
(*                                                                         *)
(* Time is counted in whole units; a frame advances it by a delta drawn     *)
(* from Deltas.  Ammunition capacities and durations are scaled down to    *)
(* the bounds named below; the code treats them as opaque numbers.         *)
(***************************************************************************)
EXTENDS Integers, Sequences, FiniteSets, TLC

VARIABLES ws, wop, wev, sim, sop, lm, lop, ret

wvars == <<ws, wop, wev>>
svars == <<sim, sop>>
lvars == <<lm, lop, ret>>
vars == <<ws, wop, wev, sim, sop, lm, lop, ret>>

(***************************************************************************)
(* Bounds of the model                                                     *)
(***************************************************************************)
\* frame deltas, in time units: with the larger one a timer steps over its
\* threshold instead of landing on it
Deltas == {1, 2}
\* scaled magazine size of the pistol and of the rifle
MagSize == 2
\* scaled maxReserveAmmo of the finite-ammo weapons
ReserveSize == 2
\* scaled fireRate (time units between shots)
FireRate == 1
\* scaled reloadTime of the firearms
ReloadTime == 2
\* scaled duration of the knife swing (0.3 s in the source)
KnifeSwingTime == 1
\* scaled MYSTERY_BOX.WEAPON_DURATION
WeaponDuration == 7
\* scaled PICKUP.AMMO_AMOUNT
AmmoAmount == 1

Min(a, b) == IF a <= b THEN a ELSE b
Max(a, b) == IF a >= b THEN a ELSE b

(***************************************************************************)
(* WeaponSystem (src/entities/Weapon.ts)                                   *)
(***************************************************************************)
\* JavaScript's Infinity: larger than every ammunition count of the model
Infinity == 1000000

NULL == "NULL"

\* The weapon types of the model.  RIFLE stands for the finite-ammo weapons
\* (RIFLE, SHOTGUN, SNIPER, MACHINE_GUN), which one code path registers and
\* which differ only in their numbers; ROCKET_LAUNCHER is a WeaponType that
\* initWeapons never registers.
Registered == {"PISTOL", "RIFLE", "KNIFE"}
WeaponType == Registered \cup {"ROCKET_LAUNCHER"}
weaponsToClear == {"RIFLE"}

initWeapons ==
  [t \in Registered |->
     CASE t = "PISTOL" ->
            [magazineSize |-> MagSize, currentAmmo |-> MagSize,
             reserveAmmo |-> Infinity, maxReserveAmmo |-> Infinity,
             infiniteAmmo |-> TRUE, isTemporary |-> FALSE]
       [] t = "RIFLE" ->
            [magazineSize |-> MagSize, currentAmmo |-> MagSize,
             reserveAmmo |-> ReserveSize, maxReserveAmmo |-> ReserveSize,
             infiniteAmmo |-> FALSE, isTemporary |-> FALSE]
       [] t = "KNIFE" ->
            [magazineSize |-> Infinity, currentAmmo |-> Infinity,
             reserveAmmo |-> Infinity, maxReserveAmmo |-> Infinity,
             infiniteAmmo |-> TRUE, isTemporary |-> FALSE]]

fireRate(t) == FireRate
reloadTime(t) == IF t = "KNIFE" THEN 0 ELSE ReloadTime

\* the equipped slot
cur(s) == s.weapons[s.currentWeaponType]

equipWeapon(s, type) ==
  IF type \notin Registered THEN s
  ELSE [s EXCEPT !.currentWeaponType = type,
                 !.isReloading = FALSE,
                 !.reloadTimer = 0]

\* the constructor: fields at their initialisers, initWeapons, equip PISTOL
newWeaponSystem ==
  equipWeapon(
    [weapons |-> initWeapons,
     currentWeaponType |-> "PISTOL",
     fireTimer |-> 0,
     isReloading |-> FALSE,
     reloadTimer |-> 0,
     isKnifeSwinging |-> FALSE,
     knifeSwingTimer |-> 0,
     temporaryWeaponType |-> NULL,
     temporaryWeaponTimer |-> 0,
     isZombieMode |-> FALSE],
    "PISTOL")

\* reload() without the full-magazine check
reloadWhenFull(s) ==
  IF s.isReloading THEN s
  ELSE IF s.currentWeaponType = "KNIFE" THEN s
  ELSE IF ~cur(s).infiniteAmmo /\ cur(s).reserveAmmo <= 0 THEN s
  ELSE [s EXCEPT !.isReloading = TRUE,
                 !.reloadTimer = reloadTime(s.currentWeaponType)]

reload(s) ==
  IF s.isReloading THEN s
  ELSE IF s.currentWeaponType = "KNIFE" THEN s
  ELSE IF cur(s).currentAmmo = cur(s).magazineSize THEN s
  ELSE IF ~cur(s).infiniteAmmo /\ cur(s).reserveAmmo <= 0 THEN s
  ELSE [s EXCEPT !.isReloading = TRUE,
                 !.reloadTimer = reloadTime(s.currentWeaponType)]

\* knifeAttack() that starts the fire-rate cooldown but no swing
knifeAttackWithoutSwing(s) ==
  IF s.isKnifeSwinging THEN s
  ELSE [s EXCEPT !.fireTimer = fireRate(s.currentWeaponType)]

knifeAttack(s) ==
  IF s.isKnifeSwinging THEN s
  ELSE [s EXCEPT !.isKnifeSwinging = TRUE,
                 !.knifeSwingTimer = KnifeSwingTime,
                 !.fireTimer = fireRate(s.currentWeaponType)]

\* shoot() without its check of a reload in progress
shootWhileReloading(s) ==
  IF s.fireTimer > 0 THEN s
  ELSE IF s.isKnifeSwinging THEN s
  ELSE IF s.currentWeaponType = "KNIFE" THEN knifeAttack(s)
  ELSE IF cur(s).currentAmmo <= 0 THEN reload(s)
  ELSE [s EXCEPT !.weapons[s.currentWeaponType].currentAmmo = @ - 1,
                 !.fireTimer = fireRate(s.currentWeaponType)]

\* shoot() that only plays the empty cue on an empty magazine
shootWithoutAutoReload(s) ==
  IF s.fireTimer > 0 THEN s
  ELSE IF s.isReloading THEN s
  ELSE IF s.isKnifeSwinging THEN s
  ELSE IF s.currentWeaponType = "KNIFE" THEN knifeAttack(s)
  ELSE IF cur(s).currentAmmo <= 0 THEN s
  ELSE [s EXCEPT !.weapons[s.currentWeaponType].currentAmmo = @ - 1,
                 !.fireTimer = fireRate(s.currentWeaponType)]

shoot(s) ==
  IF s.fireTimer > 0 THEN s
  ELSE IF s.isReloading THEN s
  ELSE IF s.isKnifeSwinging THEN s
  ELSE IF s.currentWeaponType = "KNIFE" THEN knifeAttack(s)
  ELSE IF cur(s).currentAmmo <= 0 THEN reload(s)
  ELSE [s EXCEPT !.weapons[s.currentWeaponType].currentAmmo = @ - 1,
                 !.fireTimer = fireRate(s.currentWeaponType)]

\* completeReload() that fills the magazine without drawing on the reserve
completeReloadKeepsReserve(s) ==
  LET w == cur(s)
      ammoNeeded == w.magazineSize - w.currentAmmo
      ammoToAdd == Min(ammoNeeded, w.reserveAmmo)
  IN  IF w.infiniteAmmo
      THEN [s EXCEPT !.weapons[s.currentWeaponType].currentAmmo = w.magazineSize,
                     !.isReloading = FALSE]
      ELSE [s EXCEPT !.weapons[s.currentWeaponType].currentAmmo = @ + ammoToAdd,
                     !.isReloading = FALSE]

\* completeReload() that moves the whole reserve into the magazine
completeReloadUncapped(s) ==
  LET w == cur(s)
  IN  IF w.infiniteAmmo
      THEN [s EXCEPT !.weapons[s.currentWeaponType].currentAmmo = w.magazineSize,
                     !.isReloading = FALSE]
      ELSE [s EXCEPT !.weapons[s.currentWeaponType].currentAmmo = @ + w.reserveAmmo,
                     !.weapons[s.currentWeaponType].reserveAmmo = 0,
                     !.isReloading = FALSE]

completeReload(s) ==
  LET w == cur(s)
      ammoNeeded == w.magazineSize - w.currentAmmo
      ammoToAdd == Min(ammoNeeded, w.reserveAmmo)
  IN  IF w.infiniteAmmo
      THEN [s EXCEPT !.weapons[s.currentWeaponType].currentAmmo = w.magazineSize,
                     !.isReloading = FALSE]
      ELSE [s EXCEPT !.weapons[s.currentWeaponType].currentAmmo = @ + ammoToAdd,
                     !.weapons[s.currentWeaponType].reserveAmmo = @ - ammoToAdd,
                     !.isReloading = FALSE]

\* removeTemporaryWeapon() that leaves the weapon its ammunition
removeTemporaryWeaponKeepAmmo(s) ==
  LET t == s.temporaryWeaponType
      cleared == IF t # NULL
                 THEN [s EXCEPT !.weapons[t].isTemporary = FALSE,
                                !.temporaryWeaponType = NULL,
                                !.temporaryWeaponTimer = 0]
                 ELSE s
  IN  equipWeapon(cleared, "PISTOL")

removeTemporaryWeapon(s) ==
  LET t == s.temporaryWeaponType
      cleared == IF t # NULL
                 THEN [s EXCEPT !.weapons[t].isTemporary = FALSE,
                                !.weapons[t].currentAmmo = 0,
                                !.weapons[t].reserveAmmo = 0,
                                !.temporaryWeaponType = NULL,
                                !.temporaryWeaponTimer = 0]
                 ELSE s
  IN  equipWeapon(cleared, "PISTOL")

\* update(delta): fire timer, temporary-weapon countdown, reload, knife swing
updateFireTimer(s, delta) ==
  IF s.fireTimer > 0 THEN [s EXCEPT !.fireTimer = @ - delta] ELSE s

updateTemporaryTimer(s, delta) ==
  IF s.temporaryWeaponTimer > 0 /\ s.temporaryWeaponType # NULL
  THEN LET s1 == [s EXCEPT !.temporaryWeaponTimer = @ - delta]
       IN  IF s1.temporaryWeaponTimer <= 0 THEN removeTemporaryWeapon(s1) ELSE s1
  ELSE s

updateReload(s, delta) ==
  IF s.isReloading
  THEN LET s1 == [s EXCEPT !.reloadTimer = @ - delta]
       IN  IF s1.reloadTimer <= 0 THEN completeReload(s1) ELSE s1
  ELSE s

updateKnifeSwing(s, delta) ==
  IF s.isKnifeSwinging
  THEN LET s1 == [s EXCEPT !.knifeSwingTimer = @ - delta]
       IN  IF s1.knifeSwingTimer <= 0 THEN [s1 EXCEPT !.isKnifeSwinging = FALSE] ELSE s1
  ELSE s

update(s, delta) ==
  updateKnifeSwing(updateReload(updateTemporaryTimer(updateFireTimer(s, delta), delta), delta), delta)

addAmmo(s, type, amount) ==
  IF type \notin Registered THEN s
  ELSE IF s.weapons[type].infiniteAmmo THEN s
  ELSE IF s.isZombieMode /\ s.weapons[type].isTemporary THEN s
  ELSE [s EXCEPT !.weapons[type].reserveAmmo =
                     Min(s.weapons[type].maxReserveAmmo, @ + amount)]

configureZombieMode(s) ==
  LET s1 == [s EXCEPT !.isZombieMode = TRUE,
                      !.temporaryWeaponType = NULL,
                      !.temporaryWeaponTimer = 0,
                      !.weapons = [t \in Registered |->
                         IF t = "PISTOL"
                         THEN [s.weapons[t] EXCEPT !.infiniteAmmo = FALSE,
                                                   !.currentAmmo = s.weapons[t].magazineSize,
                                                   !.reserveAmmo = ReserveSize,
                                                   !.maxReserveAmmo = ReserveSize + ReserveSize]
                         ELSE IF t \in weaponsToClear
                         THEN [s.weapons[t] EXCEPT !.currentAmmo = 0,
                                                   !.reserveAmmo = 0,
                                                   !.isTemporary = FALSE]
                         ELSE s.weapons[t]]]
  IN  equipWeapon(s1, "PISTOL")

giveMysteryBoxWeapon(s, type) ==
  IF type \notin Registered THEN s
  ELSE LET s1 == IF s.temporaryWeaponType # NULL THEN removeTemporaryWeapon(s) ELSE s
           s2 == [s1 EXCEPT !.weapons[type].isTemporary = TRUE,
                            !.temporaryWeaponType = type,
                            !.temporaryWeaponTimer = WeaponDuration,
                            !.weapons[type].currentAmmo = s1.weapons[type].magazineSize,
                            !.weapons[type].reserveAmmo = s1.weapons[type].maxReserveAmmo]
       IN  equipWeapon(s2, type)

checkTemporaryWeaponEmpty(s) ==
  IF ~cur(s).isTemporary THEN s
  ELSE IF cur(s).currentAmmo <= 0 /\ cur(s).reserveAmmo <= 0
       THEN removeTemporaryWeapon(s)
       ELSE s

refillPistolAmmo(s) ==
  [s EXCEPT !.weapons["PISTOL"].currentAmmo = s.weapons["PISTOL"].magazineSize,
            !.weapons["PISTOL"].reserveAmmo = s.weapons["PISTOL"].maxReserveAmmo]

\* WeaponSystem.reset()
resetWeapons(s) ==
  equipWeapon(
    [s EXCEPT !.weapons = [t \in Registered |->
                 [s.weapons[t] EXCEPT !.currentAmmo = s.weapons[t].magazineSize,
                                      !.reserveAmmo = IF s.weapons[t].infiniteAmmo
                                                      THEN @
                                                      ELSE s.weapons[t].maxReserveAmmo]],
              !.fireTimer = 0,
              !.isReloading = FALSE,
              !.reloadTimer = 0],
    "PISTOL")

(***************************************************************************)
(* The weapon system driven by any sequence of its public operations       *)
(***************************************************************************)
InitWeapon ==
  /\ ws = newWeaponSystem
  /\ wop = "new"
  /\ sim = NULL
  /\ sop = NULL
  /\ lm = NULL
  /\ lop = NULL
  /\ ret = FALSE
  /\ wev = NULL

Did(name, post) ==
  /\ wop' = name
  /\ ws' = post
  /\ wev' = NULL
  /\ UNCHANGED <<svars, lvars>>

Shoot == Did("shoot", shoot(ws))
Reload == Did("reload", reload(ws))
Update == \E delta \in Deltas : Did("update", update(ws, delta))
EquipWeapon == \E type \in WeaponType : Did("equipWeapon", equipWeapon(ws, type))
AddAmmo == \E type \in WeaponType : Did("addAmmo", addAmmo(ws, type, AmmoAmount))
RefillPistolAmmo == Did("refillPistolAmmo", refillPistolAmmo(ws))
ConfigureZombieMode == Did("configureZombieMode", configureZombieMode(ws))
GiveMysteryBoxWeapon ==
  \E type \in WeaponType \ {"PISTOL", "KNIFE"} :
     Did("giveMysteryBoxWeapon", giveMysteryBoxWeapon(ws, type))
CheckTemporaryWeaponEmpty == Did("checkTemporaryWeaponEmpty", checkTemporaryWeaponEmpty(ws))
ResetWeapons == Did("reset", resetWeapons(ws))

NextWeapon ==
  \/ Shoot
  \/ Reload
  \/ Update
  \/ EquipWeapon
  \/ AddAmmo
  \/ RefillPistolAmmo
  \/ ConfigureZombieMode
  \/ GiveMysteryBoxWeapon
  \/ CheckTemporaryWeaponEmpty
  \/ ResetWeapons

SpecWeapon == InitWeapon /\ [][NextWeapon]_vars

(***************************************************************************)
(* Claims about the weapon system (checked under SpecWeapon)               *)
(*                                                                         *)
(* The action formulas below are [][A]_wvars: they constrain every step    *)
(* that changes ws or wop.  A call that changes nothing is such a step     *)
(* whenever wop held another operation's name before it, and every         *)
(* reachable ws occurs with wop = "addAmmo" (addAmmo of the unregistered   *)
(* ROCKET_LAUNCHER changes nothing), so every call on every reachable ws   *)
(* is constrained.                                                         *)
(***************************************************************************)

\* C1: every weapon slot has 0 <= currentAmmo <= magazineSize in every
\* reachable state, whatever sequence of shoot, reload, update, equipWeapon,
\* addAmmo, refillPistolAmmo, configureZombieMode, giveMysteryBoxWeapon,
\* temporary-weapon removal and reset led to it.
C1_AmmoWithinMagazine ==
  \A t \in Registered :
     /\ 0 <= ws.weapons[t].currentAmmo
     /\ ws.weapons[t].currentAmmo <= ws.weapons[t].magazineSize

\* a reload of the rifle has just completed with a reserve that could not
\* fill the magazine
C1_Witness ==
  /\ wop = "update"
  /\ ~ws.isReloading
  /\ ws.currentWeaponType = "RIFLE"
  /\ ws.weapons["RIFLE"].reserveAmmo = 0
  /\ ws.weapons["RIFLE"].currentAmmo > 0
  /\ ws.weapons["RIFLE"].currentAmmo < ws.weapons["RIFLE"].magazineSize

\* the equipped weapon is a firearm with an empty magazine
EmptyFirearm(s) == s.currentWeaponType # "KNIFE" /\ cur(s).currentAmmo = 0

\* this step started a reload of the equipped weapon
ReloadStarted ==
  /\ ~ws.isReloading
  /\ ws'.isReloading
  /\ ws'.reloadTimer = reloadTime(ws.currentWeaponType)

\* C9 as stated: shoot() on a firearm whose currentAmmo is 0 never decrements
\* ammo and always starts a reload unless a reload is already in progress.
C9_EmptyShootAlwaysReloads ==
  [][(wop' = "shoot" /\ EmptyFirearm(ws))
       => /\ ws'.weapons = ws.weapons
          /\ (ws.isReloading \/ ReloadStarted)]_wvars

\* shoot() gets as far as its ammo check
ShootReachesAmmoCheck(s) == s.fireTimer <= 0 /\ ~s.isReloading /\ ~s.isKnifeSwinging

\* C9 as amended: shoot() on a firearm whose currentAmmo is 0 never
\* decrements ammo; it starts a reload exactly when the fire timer is not
\* above 0, no reload and no knife swing is in progress, and the weapon has
\* infinite ammo or a reserve above 0; otherwise it changes nothing.
C9_EmptyShoot ==
  [][(wop' = "shoot" /\ EmptyFirearm(ws))
       => /\ ws'.weapons = ws.weapons
          /\ IF ShootReachesAmmoCheck(ws)
                /\ (cur(ws).infiniteAmmo \/ cur(ws).reserveAmmo > 0)
             THEN ReloadStarted /\ ws' = [ws EXCEPT !.isReloading = TRUE,
                                                   !.reloadTimer = ws'.reloadTimer]
             ELSE ws' = ws]_wvars

\* shoot() on an empty firearm has just started a reload
C9_Witness ==
  /\ wop = "shoot"
  /\ EmptyFirearm(ws)
  /\ ws.isReloading
  /\ ws.reloadTimer = reloadTime(ws.currentWeaponType)

\* the four cases in which reload() does nothing
ReloadIsNoOp(s) ==
  \/ s.isReloading
  \/ s.currentWeaponType = "KNIFE"
  \/ cur(s).currentAmmo = cur(s).magazineSize
  \/ (~cur(s).infiniteAmmo /\ cur(s).reserveAmmo = 0)

\* C10: reload() changes nothing when a reload is in progress, the knife is
\* equipped, the magazine is full, or the reserve is 0 on a weapon without
\* infinite ammo; in every other case it sets isReloading and reloadTimer =
\* reloadTime and changes no ammo.
C10_Reload ==
  [][wop' = "reload"
       => IF ReloadIsNoOp(ws)
          THEN ws' = ws
          ELSE /\ ReloadStarted
               /\ ws' = [ws EXCEPT !.isReloading = TRUE,
                                   !.reloadTimer = ws'.reloadTimer]]_wvars

\* reload() has just started a reload of a partly used magazine
C10_Witness ==
  /\ wop = "reload"
  /\ ws.isReloading
  /\ ws.reloadTimer = reloadTime(ws.currentWeaponType)
  /\ cur(ws).currentAmmo > 0
  /\ cur(ws).currentAmmo < cur(ws).magazineSize

\* this step is a tick in which the reload in progress completed: the tick
\* ended it, and not by the expiry of a temporary weapon (whose switch to the
\* pistol cancels a reload)
ReloadCompleted ==
  /\ wop' = "update"
  /\ ws.isReloading
  /\ ~ws'.isReloading
  /\ ws'.temporaryWeaponType = ws.temporaryWeaponType

\* C11: when a reload completes on a finite-ammo weapon with magazine m,
\* reserve r and magazine size M, the magazine becomes m + min(M - m, r) and
\* the reserve r - min(M - m, r), so that magazine + reserve is conserved; on
\* an infinite-ammo weapon the magazine becomes M.
C11_ReloadMovesAmmo ==
  [][ReloadCompleted
       => LET t == ws.currentWeaponType
              m == ws.weapons[t].currentAmmo
              r == ws.weapons[t].reserveAmmo
              M == ws.weapons[t].magazineSize
              moved == Min(M - m, r)
          IN  /\ ws'.currentWeaponType = t
              /\ ws'.weapons[t].magazineSize = M
              /\ IF ws.weapons[t].infiniteAmmo
                 THEN ws'.weapons[t].currentAmmo = M
                 ELSE /\ ws'.weapons[t].currentAmmo = m + moved
                      /\ ws'.weapons[t].reserveAmmo = r - moved
                      /\ ws'.weapons[t].currentAmmo + ws'.weapons[t].reserveAmmo = m + r]_wvars

\* a reload of the rifle has completed that filled the magazine and left
\* part of the reserve (reloadTimer stays below 0 only after a completion)
C11_Witness ==
  /\ wop = "update"
  /\ ~ws.isReloading
  /\ ws.reloadTimer < 0
  /\ ws.currentWeaponType = "RIFLE"
  /\ ~ws.weapons["RIFLE"].infiniteAmmo
  /\ ws.weapons["RIFLE"].currentAmmo = ws.weapons["RIFLE"].magazineSize
  /\ ws.weapons["RIFLE"].reserveAmmo > 0
  /\ ws.weapons["RIFLE"].reserveAmmo < ws.weapons["RIFLE"].maxReserveAmmo

(***************************************************************************)
(* The player's tick (Player.update, src/entities/Weapon.ts 451-509): the  *)
(* only caller of the weapon operations during play.  One tick handles the *)
(* weapon keys, shoot, reload, WeaponSystem.update(delta), the pickups in  *)
(* reach, the station in reach and checkTemporaryWeaponEmpty, in this      *)
(* order.  Between ticks the level can be (re)started: Player.reset and,   *)
(* on level 3, configureZombieMode.                                        *)
(***************************************************************************)
\* GAME_CONSTANTS.MYSTERY_BOX.WEAPONS, in the weapon types of the model
MysteryBoxWeapons == {"RIFLE", "ROCKET_LAUNCHER"}

handleWeaponKeys(s, in) ==
  LET s1 == IF in.equip # NULL THEN equipWeapon(s, in.equip) ELSE s
      s2 == IF in.shoot THEN shoot(s1) ELSE s1
  IN  IF in.reload THEN reload(s2) ELSE s2

\* Pickup.collect of an AMMO pickup: Player.addAmmo
Player_addAmmo(s, amount) == addAmmo(s, s.currentWeaponType, amount)

Player_checkPickups(s, in) ==
  IF in.pickup THEN Player_addAmmo(s, AmmoAmount) ELSE s

\* the stations exist on level 3 only, which is always loaded with
\* configureZombieMode
checkMysteryBoxInteraction(s, in) ==
  IF ~s.isZombieMode THEN s
  ELSE IF in.station = NULL THEN s
  ELSE IF in.station = "ammo" THEN refillPistolAmmo(s)
  ELSE giveMysteryBoxWeapon(s, in.station)

Player_updateLoadout(s, in) ==
  LET keys == handleWeaponKeys(s, in)
      updated == update(keys, in.delta)
      picked == Player_checkPickups(updated, in)
      used == checkMysteryBoxInteraction(picked, in)
  IN  checkTemporaryWeaponEmpty(used)

\* the temporary weapon's countdown reaches 0 in this tick
CountdownEnds(s, in) ==
  /\ s.temporaryWeaponType # NULL
  /\ s.temporaryWeaponTimer > 0
  /\ s.temporaryWeaponTimer - in.delta <= 0

\* the temporary weapon is equipped with nothing in magazine and reserve
EmptyInHand(s) ==
  /\ s.temporaryWeaponType # NULL
  /\ s.currentWeaponType = s.temporaryWeaponType
  /\ cur(s).currentAmmo = 0
  /\ cur(s).reserveAmmo = 0

\* the mystery box grants a weapon in this tick
GrantedInTick(s, in) ==
  /\ s.isZombieMode
  /\ in.station \in MysteryBoxWeapons \cap Registered

\* what an observer of the tick saw of the temporary weapon: which one was
\* recorded when the tick began, whether its countdown ended in the tick,
\* whether it was in the player's hands without a round left after the keys
\* were handled, after WeaponSystem.update or after the pickups, and whether
\* the mystery box granted a weapon
observed(s, in) ==
  LET keys == handleWeaponKeys(s, in)
      updated == update(keys, in.delta)
      picked == Player_checkPickups(updated, in)
  IN  [temp |-> s.temporaryWeaponType,
       countdownEnded |-> CountdownEnds(s, in),
       emptyInHand |-> EmptyInHand(keys) \/ EmptyInHand(updated) \/ EmptyInHand(picked),
       granted |-> GrantedInTick(s, in)]

\* Level 3 is the level played in zombie mode: loadLevel configures the
\* mode whenever it loads level 3.  The stations stand on level 3 only, the
\* pickups lie on levels 1 and 2 only (the pickupSpawns of level 3 are
\* empty).  The way back from level 3 to level 1 through the main menu is
\* not followed.
Stations(s) ==
  IF s.isZombieMode THEN {NULL, "ammo"} \cup MysteryBoxWeapons ELSE {NULL}
Pickups(s) ==
  IF s.isZombieMode THEN {FALSE} ELSE BOOLEAN

\* what one tick reads: the weapon key pressed (the last one wins), the
\* shoot and reload buttons, the frame delta, whether an ammo pickup is in
\* reach, and the station used with the E key (the ammo station, or the
\* mystery box with the weapon it draws)
TickInputs(s) ==
  [equip : Registered \cup {NULL},
   shoot : BOOLEAN,
   reload : BOOLEAN,
   delta : Deltas,
   pickup : Pickups(s),
   station : Stations(s)]

Tick ==
  \E in \in TickInputs(ws) :
     /\ wop' = "tick"
     /\ ws' = Player_updateLoadout(ws, in)
     /\ wev' = observed(ws, in)
     /\ UNCHANGED <<svars, lvars>>

NextTick ==
  \/ Tick
  \/ ConfigureZombieMode
  \/ ResetWeapons

SpecTick == InitWeapon /\ [][NextTick]_vars

\* the tick just ended was one in which a granted temporary weapon's
\* countdown reached 0 or in which it was equipped with magazine and reserve
\* at 0
TemporaryWeaponEnded ==
  /\ wop = "tick"
  /\ wev.temp # NULL
  /\ (wev.countdownEnded \/ wev.emptyInHand)

\* the pistol is equipped, weapon t is empty and no temporary weapon is
\* recorded
BackToPistol(s, t) ==
  /\ s.currentWeaponType = "PISTOL"
  /\ s.weapons[t].currentAmmo = 0
  /\ s.weapons[t].reserveAmmo = 0
  /\ s.temporaryWeaponType = NULL
  /\ s.temporaryWeaponTimer = 0

\* C12 as stated: by the end of the tick in which the countdown of a granted
\* temporary weapon reaches 0, or in which it is the equipped weapon with
\* magazine and reserve at 0, the equipped weapon is the pistol, the
\* temporary weapon's magazine and reserve are 0 and no temporary weapon is
\* recorded.
C12_TemporaryWeaponGoneAtTickEnd ==
  TemporaryWeaponEnded => BackToPistol(ws, wev.temp)

\* C12 as amended: the same, unless the mystery box grants a weapon in that
\* tick; the grant comes after the removal, and by the end of such a tick the
\* new temporary weapon is equipped with a full magazine and reserve and a
\* full countdown.
C12_TemporaryWeaponEnds ==
  TemporaryWeaponEnded =>
     IF wev.granted
     THEN /\ ws.temporaryWeaponType # NULL
          /\ ws.currentWeaponType = ws.temporaryWeaponType
          /\ ws.temporaryWeaponTimer = WeaponDuration
          /\ cur(ws).currentAmmo = cur(ws).magazineSize
          /\ cur(ws).reserveAmmo = cur(ws).maxReserveAmmo
     ELSE BackToPistol(ws, wev.temp)

\* a tick has just ended in which the temporary weapon was in the player's
\* hands without a round left, before its countdown ended, and is gone
C12_Witness ==
  /\ wop = "tick"
  /\ wev.temp = "RIFLE"
  /\ wev.emptyInHand
  /\ ~wev.countdownEnded
  /\ ~wev.granted
  /\ ws.temporaryWeaponType = NULL
  /\ ws.currentWeaponType = "PISTOL"

(***************************************************************************)
(* Damageable entities: Enemy and its variants, Player                     *)
(* (src/entities/Enemy.ts, src/entities/EnemyTypes, src/entities/Weapon.ts)*)
(*                                                                         *)
(* The world of this part is one enemy of the level's enemy list, the      *)
(* player and the game state.  Health and damage are counted in eighths of *)
(* a health point, so that the boss's damage factors 0.5, 0.75 and 1.5     *)
(* stay whole; distances are counted in tenths of a world unit, so that    *)
(* the range factors 1.2 and 1.5 stay whole.  The positions themselves are *)
(* not kept: every frame draws the enemy's distance to the player from     *)
(* Distances.                                                              *)
(***************************************************************************)
\* scaled dwell of updateIdle before PATROL (2 s in the source)
IdleDwell == 2
\* scaled dwell of updateAlert before CHASE (0.5 s in the source)
AlertDwell == 1
\* scaled deathTimer threshold of isDead (1 s in the source)
DeathDelay == 1
\* scaled Player.invincibilityDuration (0.5 s in the source)
InvincibilityDuration == 2
\* scaled ATTACK_COOLDOWN of the enemy configurations
AttackCooldown == 2
\* scaled specialAttackCooldown of the boss in its last phase
SpecialCooldown == 1
\* scaled duration of a boss phase transition (2 s in the source)
PhaseTransitionTime == 2
\* takeDamage calls on one enemy are explored until the amounts add up to
\* its health plus this many health points
MaxOverkill == 30
\* health pickups of a scripted level (two in the source)
HealthPickups == 1

\* health points in the model's unit
HP(x) == 8 * x

\* The enemy variants of the model.  BASIC runs Enemy's own update methods,
\* as FAST, ZOMBIE, FAT_ZOMBIE and FAST_ZOMBIE do with other numbers;
\* GUNNER_ZOMBIE overrides updateChase and performAttack; BOSS overrides
\* the constructor, update and die.
EnemyType == {"BASIC", "GUNNER_ZOMBIE", "BOSS"}

\* GAME_CONSTANTS.ENEMY
EnemyConfig(type) ==
  CASE type = "BASIC" ->
         [health |-> HP(30), damage |-> HP(10), attackRange |-> 2, detectionRange |-> 20]
    [] type = "GUNNER_ZOMBIE" ->
         [health |-> HP(50), damage |-> HP(8), attackRange |-> 25, detectionRange |-> 50]
    [] type = "BOSS" ->
         [health |-> HP(200), damage |-> HP(25), attackRange |-> 3, detectionRange |-> 30]
    [] type = "ZOMBIE" ->
         [health |-> HP(40), damage |-> HP(15), attackRange |-> 2, detectionRange |-> 50]

\* the damage of one hit of the rifle and of the sniper rifle
DamageAmounts == {HP(25), HP(100)}

\* PICKUP.HEALTH_AMOUNT
HealthAmount == HP(25)

\* distances of an enemy of the given type to the player, in tenths of a
\* unit: one in each of the regions the variant's range tests tell apart
Distances(type) ==
  CASE type = "BASIC" -> {10, 22, 100, 250, 400}
    [] type = "GUNNER_ZOMBIE" -> {10, 100, 270, 400, 600, 800}
    [] type = "BOSS" -> {10, 33, 70, 90, 400, 800}

\* stateTimer grows without bound in the source and is read only by
\* updateIdle and updateAlert, each comparing it with its dwell time: it is
\* kept up to one unit past what the enemy's state compares it with, and
\* past 0 in the states that do not read it
StateTimerCap(state) ==
  CASE state = "IDLE" -> IdleDwell + 1
    [] state = "ALERT" -> AlertDwell + 1
    [] OTHER -> 1

\* BossEnemy.specialAttackCooldown by phase (5, 4 and 3 s in the source)
specialAttackCooldownOf(phase) == SpecialCooldown + (3 - phase)

\* Enemy.constructor, and BossEnemy's, which ends with state = CHASE
newEnemy(type) ==
  [type |-> type,
   health |-> EnemyConfig(type).health,
   maxHealth |-> EnemyConfig(type).health,
   damage |-> EnemyConfig(type).damage,
   attackRange |-> EnemyConfig(type).attackRange,
   detectionRange |-> EnemyConfig(type).detectionRange,
   attackCooldown |-> AttackCooldown,
   state |-> IF type = "BOSS" THEN "CHASE" ELSE "IDLE",
   attackTimer |-> 0,
   stateTimer |-> 0,
   isDying |-> FALSE,
   deathTimer |-> 0,
   phase |-> 1,
   phaseTransitioning |-> FALSE,
   phaseTransitionTimer |-> 0,
   specialAttackTimer |-> 0,
   specialAttackCooldown |-> specialAttackCooldownOf(1)]

\* LevelManager.loadLevel: the health pickups of the level the enemy type
\* is met in.  BASIC enemies are spawned by the scripted levels, whose
\* pickupSpawns hold health pickups; GUNNER_ZOMBIE is spawned by level 3,
\* whose pickupSpawns is empty; no level's enemySpawns lists a BOSS, which
\* spawnEnemy alone can build.
pickupSpawns(type) == IF type = "BASIC" THEN HealthPickups ELSE 0

\* Player's fields of the health system
newPlayer ==
  [health |-> HP(100), maxHealth |-> HP(100), invincibilityTimer |-> 0]

\* The world after Game.restart with one enemy of the given type spawned.
\* present: the enemy is in LevelManager.enemies.  kills is stats.kills.
\* pickups is the number of health pickups in LevelManager.pickups.
\* History, written by no method's own logic: dealt is the sum of the
\* amounts of the takeDamage calls on the enemy; pdealt is the sum of the
\* amounts of the takeDamage calls the enemy made on the player in the
\* last operation.
newWorld(type) ==
  [e |-> newEnemy(type),
   present |-> TRUE,
   p |-> newPlayer,
   gameState |-> "PLAYING",
   kills |-> 0,
   pickups |-> pickupSpawns(type),
   dealt |-> 0,
   pdealt |-> 0]

\* Enemy.setState
setState(e, newState) ==
  IF e.state # newState
  THEN [e EXCEPT !.state = newState, !.stateTimer = 0]
  ELSE e

\* Game.gameOver
gameOver(w) == [w EXCEPT !.gameState = "GAME_OVER"]

\* Player.takeDamage without its check of the invincibility timer
Player_takeDamageUnshielded(w, amount) ==
  LET called == [w EXCEPT !.pdealt = @ + amount]
      hurt == [called EXCEPT !.p.health = Max(0, @ - amount),
                             !.p.invincibilityTimer = InvincibilityDuration]
  IN IF w.p.health <= 0 THEN called
     ELSE IF hurt.p.health <= 0 THEN gameOver(hurt)
     ELSE hurt

\* Player.takeDamage, called by the enemy
Player_takeDamage(w, amount) ==
  LET called == [w EXCEPT !.pdealt = @ + amount]
      hurt == [called EXCEPT !.p.health = Max(0, @ - amount),
                             !.p.invincibilityTimer = InvincibilityDuration]
  IN IF w.p.invincibilityTimer > 0 THEN called
     ELSE IF w.p.health <= 0 THEN called
     ELSE IF hurt.p.health <= 0 THEN gameOver(hurt)
     ELSE hurt

\* Player.heal
Player_heal(w, amount) ==
  [w EXCEPT !.p.health = Min(w.p.maxHealth, @ + amount)]

\* Game.addScore: stats.kills++
addScore(w) == [w EXCEPT !.kills = @ + 1]

\* Enemy.die leaving the state as it was
dieInPlace(w) ==
  IF w.e.isDying THEN w
  ELSE addScore([w EXCEPT !.e.isDying = TRUE,
                          !.e.deathTimer = 0])

\* Enemy.die (BossEnemy.die calls it and adds visual effects)
die(w) ==
  IF w.e.isDying THEN w
  ELSE addScore([w EXCEPT !.e.isDying = TRUE,
                          !.e.deathTimer = 0,
                          !.e.state = "DEAD"])

\* Enemy.takeDamage with the death check written health < 0
Enemy_takeDamageBelowZero(w, amount) ==
  LET called == [w EXCEPT !.dealt = @ + amount]
      hurt == [called EXCEPT !.e.health = @ - amount]
      chased == IF hurt.e.state \in {"IDLE", "PATROL"}
                THEN [hurt EXCEPT !.e = setState(@, "CHASE")]
                ELSE hurt
  IN IF w.e.isDying THEN called
     ELSE IF chased.e.health < 0 THEN die(chased)
     ELSE chased

\* Enemy.takeDamage
Enemy_takeDamage(w, amount) ==
  LET called == [w EXCEPT !.dealt = @ + amount]
      hurt == [called EXCEPT !.e.health = @ - amount]
      chased == IF hurt.e.state \in {"IDLE", "PATROL"}
                THEN [hurt EXCEPT !.e = setState(@, "CHASE")]
                ELSE hurt
  IN IF w.e.isDying THEN called
     ELSE IF chased.e.health <= 0 THEN die(chased)
     ELSE chased

\* Enemy.updateIdle with the idle time looked at before the player
updateIdleDwellFirst(e, d) ==
  IF e.stateTimer > IdleDwell THEN setState(e, "PATROL")
  ELSE IF d < 10 * e.detectionRange THEN setState(e, "ALERT")
  ELSE e

\* Enemy.updateIdle
updateIdle(e, d) ==
  IF d < 10 * e.detectionRange THEN setState(e, "ALERT")
  ELSE IF e.stateTimer > IdleDwell THEN setState(e, "PATROL")
  ELSE e

\* Enemy.updatePatrol
updatePatrol(e, d) ==
  IF d < 10 * e.detectionRange THEN setState(e, "ALERT") ELSE e

\* Enemy.updateAlert with the dwell over as soon as it is reached
updateAlertAtDwell(e) ==
  IF e.stateTimer >= AlertDwell THEN setState(e, "CHASE") ELSE e

\* Enemy.updateAlert
updateAlert(e) ==
  IF e.stateTimer > AlertDwell THEN setState(e, "CHASE") ELSE e

\* Enemy.updateChase with a lost player sent back to IDLE
updateChaseToIdle(e, d) ==
  IF d < 10 * e.attackRange THEN setState(e, "ATTACK")
  ELSE IF d > 15 * e.detectionRange THEN setState(e, "IDLE")
  ELSE e

\* Enemy.updateChase
updateChase(e, d) ==
  IF d < 10 * e.attackRange THEN setState(e, "ATTACK")
  ELSE IF d > 15 * e.detectionRange THEN setState(e, "PATROL")
  ELSE e

\* GunnerZombieEnemy.updateChase
Gunner_updateChase(e, d) ==
  IF d < 10 * e.attackRange /\ d > 50 THEN setState(e, "ATTACK")
  ELSE IF d < 50 THEN e
  ELSE updateChase(e, d)

\* Enemy.performAttack and GunnerZombieEnemy.performAttack; r is the outcome
\* of the gunner's Math.random() > 0.3
performAttack(w, d, r) ==
  IF w.e.type = "GUNNER_ZOMBIE"
  THEN IF d < 10 * w.e.attackRange /\ r THEN Player_takeDamage(w, w.e.damage) ELSE w
  ELSE IF d < 12 * w.e.attackRange THEN Player_takeDamage(w, w.e.damage) ELSE w

\* Enemy.updateAttack without the 1.2 margin on the attack range
updateAttackNoMargin(w, d, r) ==
  IF d > 10 * w.e.attackRange THEN [w EXCEPT !.e = setState(@, "CHASE")]
  ELSE IF w.e.attackTimer <= 0
       THEN [performAttack(w, d, r) EXCEPT !.e.attackTimer = w.e.attackCooldown]
       ELSE w

\* Enemy.updateAttack that lets the attack go one tick before the timer has
\* run out
updateAttackEarly(w, d, r) ==
  IF d > 12 * w.e.attackRange THEN [w EXCEPT !.e = setState(@, "CHASE")]
  ELSE IF w.e.attackTimer <= 1
       THEN [performAttack(w, d, r) EXCEPT !.e.attackTimer = w.e.attackCooldown]
       ELSE w

\* Enemy.updateAttack
updateAttack(w, d, r) ==
  IF d > 12 * w.e.attackRange THEN [w EXCEPT !.e = setState(@, "CHASE")]
  ELSE IF w.e.attackTimer <= 0
       THEN [performAttack(w, d, r) EXCEPT !.e.attackTimer = w.e.attackCooldown]
       ELSE w

\* Enemy.updateDeath
updateDeath(e, delta) == [e EXCEPT !.deathTimer = @ + delta]

\* Enemy.isDead
isDead(e) == e.isDying /\ e.deathTimer > DeathDelay

\* Enemy.update past its isDying guard: the timers and the state machine
updateStateMachine(w, delta, d, r) ==
  LET timed == [w EXCEPT !.e.attackTimer = IF @ > 0 THEN @ - delta ELSE @,
                         !.e.stateTimer = Min(@ + delta, StateTimerCap(w.e.state))]
      e == timed.e
  IN CASE e.state = "IDLE" -> [timed EXCEPT !.e = updateIdle(e, d)]
       [] e.state = "PATROL" -> [timed EXCEPT !.e = updatePatrol(e, d)]
       [] e.state = "ALERT" -> [timed EXCEPT !.e = updateAlert(e)]
       [] e.state = "CHASE" ->
            [timed EXCEPT !.e = IF e.type = "GUNNER_ZOMBIE"
                                THEN Gunner_updateChase(e, d)
                                ELSE updateChase(e, d)]
       [] e.state = "ATTACK" -> updateAttack(timed, d, r)
       [] OTHER -> timed

\* Enemy.update
Enemy_update(w, delta, d, r) ==
  IF w.e.isDying THEN [w EXCEPT !.e = updateDeath(@, delta)]
  ELSE updateStateMachine(w, delta, d, r)

\* BossEnemy.startPhaseTransition
startPhaseTransition(e, newPhase) ==
  LET started == [e EXCEPT !.phase = newPhase,
                           !.phaseTransitioning = TRUE,
                           !.phaseTransitionTimer = PhaseTransitionTime]
  IN CASE newPhase = 2 ->
            [started EXCEPT !.attackCooldown = (AttackCooldown * 8) \div 10,
                            !.specialAttackCooldown = specialAttackCooldownOf(2)]
       [] newPhase = 3 ->
            [started EXCEPT !.damage = (EnemyConfig("BOSS").damage * 3) \div 2,
                            !.attackCooldown = (AttackCooldown * 6) \div 10,
                            !.specialAttackCooldown = specialAttackCooldownOf(3)]
       [] OTHER -> started

\* checkPhaseChange without the test of the phase in its second branch
checkPhaseChangeAnyPhase(e) ==
  IF 100 * e.health <= 33 * e.maxHealth /\ e.phase # 3
  THEN startPhaseTransition(e, 3)
  ELSE IF 100 * e.health <= 66 * e.maxHealth
       THEN startPhaseTransition(e, 2)
       ELSE e

\* BossEnemy.checkPhaseChange: health / maxHealth <= 0.33, <= 0.66
checkPhaseChange(e) ==
  IF 100 * e.health <= 33 * e.maxHealth /\ e.phase # 3
  THEN startPhaseTransition(e, 3)
  ELSE IF 100 * e.health <= 66 * e.maxHealth /\ e.phase = 1
       THEN startPhaseTransition(e, 2)
       ELSE e

\* BossEnemy.updatePhaseTransition
updatePhaseTransition(e, delta) ==
  LET timed == [e EXCEPT !.phaseTransitionTimer = @ - delta]
  IN IF timed.phaseTransitionTimer <= 0
     THEN [timed EXCEPT !.phaseTransitioning = FALSE]
     ELSE timed

\* BossEnemy.performDashAttack; d2 is the distance to the player after the
\* dash
performDashAttack(w, d2) ==
  IF d2 < 20 THEN Player_takeDamage(w, w.e.damage) ELSE w

\* BossEnemy.performSpecialAttack
performSpecialAttack(w, d, d2) ==
  CASE w.e.phase = 1 ->
         IF d < 80 THEN Player_takeDamage(w, w.e.damage \div 2) ELSE w
    [] w.e.phase = 2 -> performDashAttack(w, d2)
    [] w.e.phase = 3 ->
         performDashAttack(
           IF d < 100 THEN Player_takeDamage(w, (w.e.damage * 3) \div 4) ELSE w,
           d2)

\* BossEnemy.update; the special-attack timer only ever is compared with 0
\* and is kept down to 0
Boss_update(w, delta, d, r, d2) ==
  IF w.e.phaseTransitioning
  THEN [w EXCEPT !.e = updatePhaseTransition(@, delta)]
  ELSE LET checked == [w EXCEPT !.e = checkPhaseChange(@)]
           timed == [checked EXCEPT
                       !.e.specialAttackTimer = Max(@ - delta, 0)]
           special == timed.e.specialAttackTimer <= 0 /\ timed.e.state = "ATTACK"
           attacked ==
             IF special
             THEN [performSpecialAttack(timed, d, d2) EXCEPT
                     !.e.specialAttackTimer = timed.e.specialAttackCooldown]
             ELSE timed
           dashed == special /\ timed.e.phase \in {2, 3}
       IN Enemy_update(attacked, delta, IF dashed THEN d2 ELSE d, r)

\* Player.update: the invincibility timer
Player_update(w, delta) ==
  IF w.p.invincibilityTimer > 0
  THEN [w EXCEPT !.p.invincibilityTimer = @ - delta]
  ELSE w

\* LevelManager.update: the enemy loop and the removal of dead enemies
LevelManager_updateEnemies(w, delta, d, r, d2) ==
  IF ~w.present THEN w
  ELSE LET updated == IF w.e.type = "BOSS"
                      THEN Boss_update(w, delta, d, r, d2)
                      ELSE Enemy_update(w, delta, d, r)
       IN IF isDead(updated.e) THEN [updated EXCEPT !.present = FALSE] ELSE updated

\* Game.update
Game_update(w, delta, d, r, d2) ==
  IF w.gameState # "PLAYING" THEN w
  ELSE LevelManager_updateEnemies(Player_update(w, delta), delta, d, r, d2)

(***************************************************************************)
(* One enemy and the player driven by frames, hits, pickups and restarts   *)
(***************************************************************************)
InitEnemy ==
  /\ \E type \in EnemyType : sim = newWorld(type)
  /\ sop = "restart"
  /\ ws = NULL
  /\ wop = NULL
  /\ lm = NULL
  /\ lop = NULL
  /\ ret = FALSE
  /\ wev = NULL

\* the world at the start of an operation: its history of calls on the
\* player is empty
Fresh(w) == [w EXCEPT !.pdealt = 0]

\* an operation on the world
DidSim(name, post) ==
  /\ sop' = name
  /\ sim' = post
  /\ UNCHANGED <<wvars, lvars>>

\* a frame of the game loop
Frame ==
  \E delta \in Deltas, d \in Distances(sim.e.type) :
     \E r \in IF sim.e.type = "GUNNER_ZOMBIE" THEN BOOLEAN ELSE {TRUE},
        d2 \in IF sim.e.type = "BOSS" /\ sim.e.state = "ATTACK"
               THEN Distances("BOSS") ELSE {d} :
        DidSim("update", Game_update(Fresh(sim), delta, d, r, d2))

\* a hit of the player's weapon on the enemy (performRaycast, knifeAttack)
HitEnemy ==
  /\ sim.gameState = "PLAYING"
  /\ sim.present
  /\ sim.dealt < sim.e.maxHealth + HP(MaxOverkill)
  /\ \E amount \in DamageAmounts :
        DidSim("takeDamage", Enemy_takeDamage(Fresh(sim), amount))

\* Player.checkPickups on a health pickup in reach: Pickup.collect, then
\* LevelManager.removePickup
checkPickups(w) ==
  [Player_heal(w, HealthAmount) EXCEPT !.pickups = @ - 1]

\* the player walks over a health pickup
CollectHealth ==
  /\ sim.gameState = "PLAYING"
  /\ sim.pickups > 0
  /\ DidSim("heal", checkPickups(Fresh(sim)))

\* Game.restart: a fresh level, the player reset, the game PLAYING
Restart == \E type \in EnemyType : DidSim("restart", newWorld(type))

NextEnemy ==
  \/ Frame
  \/ HitEnemy
  \/ CollectHealth
  \/ Restart

SpecEnemy == InitEnemy /\ [][NextEnemy]_vars

(***************************************************************************)
(* Claims about the Damageable entities (checked under SpecEnemy)          *)
(*                                                                         *)
(* sop names the operation that led to the state; after "restart" the      *)
(* enemy of the world is a newly constructed one, so a change of           *)
(* sim.e across any other step is a change of one and the same enemy.      *)
(***************************************************************************)

\* C2 as stated: for the enemy and for the player, health after the
\* takeDamage calls made so far is max(0, h0 - sum of the amounts) and never
\* exceeds maxHealth.  For the enemy h0 is the health it was constructed
\* with and the calls are all those made on it; for the player the calls are
\* those of one frame and h0 is the health at the start of the frame.
C2_HealthIsClampedDifference ==
  [][/\ sim'.e.health = Max(0, sim'.e.maxHealth - sim'.dealt)
     /\ sim'.e.health <= sim'.e.maxHealth
     /\ (sop' = "update" => sim'.p.health = Max(0, sim.p.health - sim'.pdealt))
     /\ sim'.p.health <= sim'.p.maxHealth]_svars

\* C3 as stated: the enemy and the player have 0 <= health <= maxHealth in
\* every reachable state.
C3_HealthWithinBounds ==
  /\ 0 <= sim.e.health
  /\ sim.e.health <= sim.e.maxHealth
  /\ 0 <= sim.p.health
  /\ sim.p.health <= sim.p.maxHealth

\* the edges of the state machine that C4 lists
ListedEdges ==
  {<<"IDLE", "ALERT">>, <<"IDLE", "PATROL">>, <<"PATROL", "ALERT">>,
   <<"ALERT", "CHASE">>, <<"CHASE", "ATTACK">>, <<"CHASE", "PATROL">>,
   <<"ATTACK", "CHASE">>}
    \cup {<<s, "DEAD">> : s \in {"IDLE", "PATROL", "ALERT", "CHASE", "ATTACK"}}

\* the edges that takeDamage adds
DamageEdges == {<<"IDLE", "CHASE">>, <<"PATROL", "CHASE">>}

\* C4 as stated: every enemy starts in IDLE, and its state changes only
\* along the listed edges, whatever operation changes it.
C4_OnlyListedEdges ==
  /\ [](sop = "restart" => sim.e.state = "IDLE")
  /\ [][(sop' # "restart" /\ sim'.e.state # sim.e.state)
          => <<sim.e.state, sim'.e.state>> \in ListedEdges]_svars

\* C4 as amended: every enemy but the boss starts in IDLE and the boss
\* starts in CHASE; an update changes the state only along the listed
\* edges, a takeDamage call only along IDLE->CHASE, PATROL->CHASE and the
\* edges into DEAD; no operation changes the state of a DEAD enemy.
C4_StateEdges ==
  /\ [](sop = "restart"
          => sim.e.state = IF sim.e.type = "BOSS" THEN "CHASE" ELSE "IDLE")
  /\ [][(sop' # "restart" /\ sim'.e.state # sim.e.state)
          => \/ /\ sop' = "update"
                /\ <<sim.e.state, sim'.e.state>> \in ListedEdges
                /\ sim'.e.state # "DEAD"
             \/ /\ sop' = "takeDamage"
                /\ \/ <<sim.e.state, sim'.e.state>> \in DamageEdges
                   \/ sim.e.state # "DEAD" /\ sim'.e.state = "DEAD"]_svars

\* a hit has left a BASIC enemy alive and in CHASE with its state timer
\* at 0
C4_Witness ==
  /\ sop = "takeDamage"
  /\ sim.e.type = "BASIC"
  /\ sim.e.state = "CHASE"
  /\ sim.e.stateTimer = 0
  /\ sim.e.health > 0
  /\ sim.e.health < sim.e.maxHealth

\* C7: the death event has fired exactly once if the amounts of the
\* takeDamage calls made on the enemy add up to its health or more
\* (whether or not calls followed its death), and has not fired otherwise.
C7_OneDeathEvent ==
  sim.kills = IF sim.dealt >= sim.e.maxHealth THEN 1 ELSE 0

\* a takeDamage call has been made on an enemy that was already dying
C7_Witness ==
  /\ sop = "takeDamage"
  /\ sim.e.isDying
  /\ sim.kills = 1
  /\ sim.e.health > sim.e.maxHealth - sim.dealt

\* C8: a takeDamage call that brings the enemy's health to 0 or below
\* leaves it in DEAD whatever state it was in; no later operation on that
\* enemy changes its state or makes it call takeDamage on the player.
C8_DeadIsFinalAndHarmless ==
  [][/\ (sop' = "takeDamage" /\ sim.e.health > 0 /\ sim'.e.health <= 0)
          => sim'.e.state = "DEAD"
     /\ (sim.e.state = "DEAD" /\ sop' # "restart")
          => (sim'.e.state = "DEAD" /\ sim'.pdealt = 0)]_svars

\* a frame has updated a dying boss whose attack and special-attack timers
\* had run out
C8_Witness ==
  /\ sop = "update"
  /\ sim.e.type = "BOSS"
  /\ sim.e.state = "DEAD"
  /\ sim.e.deathTimer > 0
  /\ sim.e.attackTimer <= 0
  /\ sim.e.specialAttackTimer <= 0

(***************************************************************************)
(* LevelManager: waves and spawning (src/unnamed/part_003), with the game  *)
(* state of Game (src/core/Game.ts)                                        *)
(*                                                                         *)
(* The enemy list is kept as its length, enemies.  pending is the number   *)
(* of spawn callbacks that spawnZombieWave has handed to setTimeout and    *)
(* that have not run yet; they run at any later moment, in any game state  *)
(* and after any reload of the level.                                      *)
(***************************************************************************)
\* scaled waveSpawnDelay (3 s in the source)
WaveSpawnDelay == 2
\* scaled delay before the first survival wave (2 s in the source)
FirstWaveDelay == 1
\* frames are explored up to this survival wave
MaxWaveCount == 12
\* and up to this many spawn callbacks waiting to run
MaxPending == 11

\* LevelManager.maxZombiesCap
maxZombiesCap == 10

\* the levels: 1 and 2 are scripted, 3 is the endless survival level
Levels == {1, 2, 3}

\* levelConfigs: the number of enemySpawns of a wave of a scripted level
waveSpawns(level, wave) ==
  CASE level = 1 /\ wave = 1 -> 3
    [] level = 1 /\ wave = 2 -> 2
    [] level = 2 /\ wave \in {1, 2, 3} -> 3
    [] OTHER -> 0

\* startNextWave without its filter: every enemySpawn of the level is
\* instantiated
startNextWaveUnfiltered(l) ==
  [l EXCEPT !.currentWave = @ + 1,
            !.waveActive = TRUE,
            !.enemies = @ + waveSpawns(l.currentLevel, 1)
                          + waveSpawns(l.currentLevel, 2)
                          + waveSpawns(l.currentLevel, 3)]

\* LevelManager.startNextWave
startNextWave(l) ==
  [l EXCEPT !.currentWave = @ + 1,
            !.waveActive = TRUE,
            !.enemies = @ + waveSpawns(l.currentLevel, l.currentWave + 1)]

\* spawnZombieWave that schedules the wave's whole target, whatever the
\* number of enemies alive
spawnZombieWaveWholeTarget(l) ==
  LET count == l.endlessWaveCount + 1
      waveZombieTarget == Min(maxZombiesCap, 5 + (count \div 2))
  IN [l EXCEPT !.endlessWaveCount = count,
               !.currentWave = count,
               !.waveActive = TRUE,
               !.pending = @ + waveZombieTarget]

\* LevelManager.spawnZombieWave: the callbacks are scheduled, none has run
spawnZombieWave(l) ==
  LET count == l.endlessWaveCount + 1
      waveZombieTarget == Min(maxZombiesCap, 5 + (count \div 2))
      zombiesToSpawn == Max(0, waveZombieTarget - l.enemies)
  IN [l EXCEPT !.endlessWaveCount = count,
               !.currentWave = count,
               !.waveActive = TRUE,
               !.pending = @ + zombiesToSpawn]

\* a spawn callback of spawnZombieWave without its check of the game state
spawnCallbackAnyState(l) ==
  LET ran == [l EXCEPT !.pending = @ - 1]
  IN IF l.enemies >= maxZombiesCap THEN ran
     ELSE [ran EXCEPT !.enemies = @ + 1]

\* a spawn callback of spawnZombieWave without its check of the cap
spawnCallbackUnchecked(l) ==
  LET ran == [l EXCEPT !.pending = @ - 1]
  IN IF l.gameState # "PLAYING" THEN ran
     ELSE [ran EXCEPT !.enemies = @ + 1]

\* a spawn callback of spawnZombieWave
spawnCallback(l) ==
  LET ran == [l EXCEPT !.pending = @ - 1]
  IN IF l.gameState # "PLAYING" THEN ran
     ELSE IF l.enemies >= maxZombiesCap THEN ran
     ELSE [ran EXCEPT !.enemies = @ + 1]

\* LevelManager.loadLevel: clearLevel, the level's wave fields, and for a
\* scripted level its first wave
loadLevel(l, levelId) ==
  LET cleared == [l EXCEPT !.enemies = 0, !.currentLevel = levelId]
  IN IF levelId = 3
     THEN [cleared EXCEPT !.isEndlessMode = TRUE,
                          !.endlessWaveCount = 0,
                          !.currentWave = 0,
                          !.maxWave = Infinity,
                          !.waveActive = FALSE,
                          !.waveTimer = FirstWaveDelay]
     ELSE startNextWave(
            [cleared EXCEPT !.isEndlessMode = FALSE,
                            !.maxWave = IF levelId = 1 THEN 2 ELSE 3,
                            !.currentWave = 0,
                            !.waveActive = FALSE,
                            !.waveTimer = 0])

\* LevelManager.isLevelComplete with the wave counter left out
isLevelCompleteAnyWave(l) ==
  IF l.isEndlessMode THEN FALSE
  ELSE l.enemies = 0 /\ ~l.waveActive

\* LevelManager.isLevelComplete
isLevelComplete(l) ==
  IF l.isEndlessMode THEN FALSE
  ELSE l.currentWave >= l.maxWave /\ l.enemies = 0 /\ ~l.waveActive

\* LevelManager.update that times the next wave only while the wave counter
\* is below maxWave, in survival mode too
LevelManager_updateNoEndlessTimer(l, delta, removed, died) ==
  IF l.gameState # "PLAYING" THEN l
  ELSE LET looped == [l EXCEPT !.enemies = @ - removed,
                               !.gameState = IF died THEN "GAME_OVER" ELSE @]
           completed ==
             IF looped.waveActive /\ looped.enemies = 0
             THEN [looped EXCEPT
                     !.waveActive = FALSE,
                     !.waveTimer = IF ~looped.isEndlessMode
                                      /\ looped.currentWave < looped.maxWave
                                   THEN WaveSpawnDelay ELSE @]
             ELSE looped
           timed == [completed EXCEPT !.waveTimer = @ - delta]
       IN IF ~completed.waveActive /\ completed.waveTimer > 0
          THEN IF timed.waveTimer <= 0
               THEN IF timed.isEndlessMode
                    THEN spawnZombieWave(timed)
                    ELSE startNextWave(timed)
               ELSE timed
          ELSE completed

\* LevelManager.update: removed of the enemies are found dead and removed;
\* died: an enemy's attack kills the player (Player.die, Game.gameOver)
LevelManager_update(l, delta, removed, died) ==
  IF l.gameState # "PLAYING" THEN l
  ELSE LET looped == [l EXCEPT !.enemies = @ - removed,
                               !.gameState = IF died THEN "GAME_OVER" ELSE @]
           completed ==
             IF looped.waveActive /\ looped.enemies = 0
             THEN [looped EXCEPT
                     !.waveActive = FALSE,
                     !.waveTimer = IF looped.isEndlessMode
                                      \/ looped.currentWave < looped.maxWave
                                   THEN WaveSpawnDelay ELSE @]
             ELSE looped
           timed == [completed EXCEPT !.waveTimer = @ - delta]
       IN IF ~completed.waveActive /\ completed.waveTimer > 0
          THEN IF timed.waveTimer <= 0
               THEN IF timed.isEndlessMode
                    THEN spawnZombieWave(timed)
                    ELSE startNextWave(timed)
               ELSE timed
          ELSE completed

\* Game.levelComplete
levelComplete(l) ==
  IF l.gameState = "LEVEL_COMPLETE" THEN l
  ELSE [l EXCEPT !.gameState = "LEVEL_COMPLETE", !.advancing = @ + 1]

\* Game.update: the level's update, then the check for completion
Game_updateLevel(l, delta, removed, died) ==
  IF l.gameState # "PLAYING" THEN l
  ELSE LET updated == LevelManager_update(l, delta, removed, died)
       IN IF isLevelComplete(updated) THEN levelComplete(updated) ELSE updated

\* Game.nextLevel reloading the level it was called on
nextLevelWithoutAdvance(l) ==
  IF l.currentLevel + 1 > 3
  THEN [l EXCEPT !.gameState = "VICTORY"]
  ELSE [loadLevel(l, l.currentLevel) EXCEPT !.gameState = "PLAYING"]

\* Game.nextLevel, run by the timeout of levelComplete
nextLevel(l) ==
  IF l.currentLevel + 1 > 3
  THEN [l EXCEPT !.gameState = "VICTORY"]
  ELSE [loadLevel(l, l.currentLevel + 1) EXCEPT !.gameState = "PLAYING"]

\* Game.restart
restart(l) == [loadLevel(l, l.currentLevel) EXCEPT !.gameState = "PLAYING"]

\* Game.startFromLevel
startFromLevel(l, level) ==
  [loadLevel(l, level) EXCEPT !.gameState = "PLAYING"]

\* Game.start
start(l) ==
  IF l.gameState \in {"LOADING", "PLAYING"} THEN l
  ELSE [l EXCEPT !.gameState = "PLAYING"]

\* Game.mainMenu
mainMenu(l) == [loadLevel(l, 1) EXCEPT !.gameState = "MAIN_MENU"]

\* Game.pause
pause(l) ==
  IF l.gameState # "PLAYING" THEN l ELSE [l EXCEPT !.gameState = "PAUSED"]

\* Game.resume
resume(l) ==
  IF l.gameState # "PAUSED" THEN l ELSE [l EXCEPT !.gameState = "PLAYING"]

\* the LevelManager of a new Game, and its game state
newLevelManager ==
  [currentLevel |-> 0,
   enemies |-> 0,
   currentWave |-> 0,
   maxWave |-> 1,
   waveTimer |-> 0,
   waveActive |-> FALSE,
   isEndlessMode |-> FALSE,
   endlessWaveCount |-> 0,
   pending |-> 0,
   advancing |-> 0,
   gameState |-> "LOADING"]

(***************************************************************************)
(* The level driven by frames, spawn callbacks and the menus               *)
(***************************************************************************)
\* the game shows its main menu over level 1
InitWave ==
  /\ lm = mainMenu(newLevelManager)
  /\ lop = "mainMenu"
  /\ ret = FALSE
  /\ wev = NULL
  /\ ws = NULL
  /\ wop = NULL
  /\ sim = NULL
  /\ sop = NULL

DidWave(name, post) ==
  /\ lop' = name
  /\ lm' = post
  /\ UNCHANGED <<wvars, svars, ret>>

\* a frame of the game loop; an attack kills the player only if an enemy is
\* left to make it
LevelFrame ==
  \E delta \in Deltas, removed \in 0..lm.enemies, died \in BOOLEAN :
     LET post == Game_updateLevel(lm, delta, removed, died)
     IN /\ died => removed < lm.enemies
        /\ post.endlessWaveCount <= MaxWaveCount
        /\ post.pending <= MaxPending
        /\ DidWave("update", post)

\* a timeout of spawnZombieWave runs its callback
SpawnCallback ==
  /\ lm.pending > 0
  /\ DidWave("spawn", spawnCallback(lm))

\* a timeout of levelComplete runs nextLevel (advancing counts the timeouts
\* that levelComplete has set and that have not run)
NextLevel ==
  /\ lm.advancing > 0
  /\ DidWave("nextLevel", nextLevel([lm EXCEPT !.advancing = @ - 1]))

\* the main menu's buttons
Start ==
  /\ lm.gameState = "MAIN_MENU"
  /\ DidWave("start", start(lm))

StartFromLevel ==
  /\ lm.gameState = "MAIN_MENU"
  /\ DidWave("startFromLevel", startFromLevel(lm, 3))

\* Escape, and the pause menu's buttons
Pause == DidWave("pause", pause(lm))

Resume == DidWave("resume", resume(lm))

MainMenu ==
  /\ lm.gameState = "PAUSED"
  /\ DidWave("mainMenu", mainMenu(lm))

\* the restart button of the pause menu and of the end screens
RestartLevel ==
  /\ lm.gameState \in {"PAUSED", "GAME_OVER", "VICTORY"}
  /\ DidWave("restart", restart(lm))

NextWave ==
  \/ LevelFrame
  \/ SpawnCallback
  \/ NextLevel
  \/ Start
  \/ StartFromLevel
  \/ Pause
  \/ Resume
  \/ MainMenu
  \/ RestartLevel

SpecWave == InitWave /\ [][NextWave]_vars

(***************************************************************************)
(* Claims about the waves (checked under SpecWave)                         *)
(***************************************************************************)

\* C5: in survival mode the enemy list never holds more than maxZombiesCap
\* enemies.
C5_SurvivalCap == lm.isEndlessMode => lm.enemies <= maxZombiesCap

\* a spawn callback has filled a running survival level up to the cap
\* while another one is still waiting to run
C5_Witness ==
  /\ lop = "spawn"
  /\ lm.isEndlessMode
  /\ lm.gameState = "PLAYING"
  /\ lm.enemies = maxZombiesCap
  /\ lm.pending = MaxPending - maxZombiesCap

(***************************************************************************)
(* isLevelComplete as a function of the fields it reads                    *)
(***************************************************************************)
\* the wave counters of the inputs run up to this
InputWaves == 2
\* and the lengths of their enemy lists up to this
InputEnemies == 2

\* LevelManagers in every combination of the fields isLevelComplete reads;
\* maxWave is a scripted level's or the survival level's Infinity
LevelInputs ==
  {[newLevelManager EXCEPT !.isEndlessMode = endless,
                           !.currentWave = wave,
                           !.maxWave = max,
                           !.enemies = n,
                           !.waveActive = active] :
     endless \in BOOLEAN,
     wave \in 0..(InputWaves + 1),
     max \in (1..InputWaves) \cup {Infinity},
     n \in 0..InputEnemies,
     active \in BOOLEAN}

InitComplete ==
  /\ lm \in LevelInputs
  /\ lop = "new"
  /\ ret = FALSE
  /\ wev = NULL
  /\ ws = NULL
  /\ wop = NULL
  /\ sim = NULL
  /\ sop = NULL

\* Game.update asks the level whether it is complete; ret is the answer
IsLevelComplete ==
  /\ lop' = "isLevelComplete"
  /\ ret' = isLevelComplete(lm)
  /\ UNCHANGED <<lm, wvars, svars>>

NextComplete == IsLevelComplete

SpecComplete == InitComplete /\ [][NextComplete]_vars

\* C6: for a scripted level isLevelComplete() returns true exactly when
\* currentWave >= maxWave, the enemy list is empty and waveActive is false.
C6_LevelCompleteIff ==
  (lop = "isLevelComplete" /\ ~lm.isEndlessMode)
    => (ret <=> (/\ lm.currentWave >= lm.maxWave
                 /\ lm.enemies = 0
                 /\ ~lm.waveActive))

\* isLevelComplete() has answered false for a scripted level that is empty
\* and has no active wave but has a wave left
C6_Witness ==
  /\ lop = "isLevelComplete"
  /\ ~lm.isEndlessMode
  /\ lm.currentWave + 1 = lm.maxWave
  /\ lm.enemies = 0
  /\ ~lm.waveActive
  /\ ~ret

(***************************************************************************)
(* The enemy loop of LevelManager.update with its try/catch                *)
(* (src/unnamed/part_003 850-884).  The enemies are told apart by their    *)
(* position in the live list when the tick begins.  Each call of           *)
(* enemy.update has one of three outcomes: it returns and the enemy is not *)
(* dead, it returns and the enemy is dead, or it throws.  lm.batch keeps   *)
(* what the last tick did with the list: its length n, the positions whose *)
(* update threw, those whose update ran to its end, and those removed.     *)
(***************************************************************************)
\* the enemies, counted from the head of the list, whose update can end
\* otherwise than "ok"
MaxTracked == 2
\* the endless waves followed
BatchWaves == 1

Outcomes == {"ok", "dead", "throws"}

outcomeOf(outcome, i) == IF i \in DOMAIN outcome THEN outcome[i] ELSE "ok"

\* for (const enemy of this.enemies) { try ... catch ... }, from position i
RECURSIVE enemyLoop(_, _, _)
enemyLoop(i, n, outcome) ==
  IF i > n THEN [threw |-> {}, updated |-> {}, enemiesToRemove |-> {}]
  ELSE LET rest == enemyLoop(i + 1, n, outcome)
       IN CASE outcomeOf(outcome, i) = "throws" ->
                 [rest EXCEPT !.threw = @ \cup {i},
                              !.enemiesToRemove = @ \cup {i}]
            [] outcomeOf(outcome, i) = "dead" ->
                 [rest EXCEPT !.updated = @ \cup {i},
                              !.enemiesToRemove = @ \cup {i}]
            [] OTHER ->
                 [rest EXCEPT !.updated = @ \cup {i}]

\* the positions before the first one whose update throws
beforeFirstThrow(n, outcome) ==
  {i \in 1..n : \A j \in 1..i : outcomeOf(outcome, j) # "throws"}

\* LevelManager.update whose enemy loop has no try/catch: the first throw
\* leaves the method
LevelManager_updateBatchUncaught(l, delta, outcome) ==
  IF l.gameState # "PLAYING" THEN l
  ELSE LET loop == enemyLoop(1, l.enemies, outcome)
       IN IF loop.threw = {}
          THEN [LevelManager_update(l, delta, Cardinality(loop.enemiesToRemove), FALSE)
                  EXCEPT !.batch = [n |-> l.enemies,
                                    threw |-> {},
                                    updated |-> loop.updated,
                                    removed |-> loop.enemiesToRemove]]
          ELSE [l EXCEPT !.batch = [n |-> l.enemies,
                                    threw |-> loop.threw \ beforeFirstThrow(l.enemies, outcome),
                                    updated |-> beforeFirstThrow(l.enemies, outcome),
                                    removed |-> {}]]

\* LevelManager.update: the enemy loop, the removal of enemiesToRemove, and
\* the wave bookkeeping
LevelManager_updateBatch(l, delta, outcome) ==
  IF l.gameState # "PLAYING" THEN l
  ELSE LET loop == enemyLoop(1, l.enemies, outcome)
       IN [LevelManager_update(l, delta, Cardinality(loop.enemiesToRemove), FALSE)
             EXCEPT !.batch = [n |-> l.enemies,
                               threw |-> loop.threw,
                               updated |-> loop.updated,
                               removed |-> loop.enemiesToRemove]]

\* Game.update: the level's update, then the check for completion
Game_updateBatch(l, delta, outcome) ==
  IF l.gameState # "PLAYING" THEN l
  ELSE LET updated == LevelManager_updateBatch(l, delta, outcome)
       IN IF isLevelComplete(updated) THEN levelComplete(updated) ELSE updated

InitBatch ==
  /\ lm = mainMenu(newLevelManager)
            @@ [batch |-> [n |-> 0, threw |-> {}, updated |-> {}, removed |-> {}]]
  /\ lop = "mainMenu"
  /\ ret = FALSE
  /\ wev = NULL
  /\ ws = NULL
  /\ wop = NULL
  /\ sim = NULL
  /\ sop = NULL

BatchFrame ==
  \E delta \in Deltas :
     \E outcome \in [1..Min(lm.enemies, MaxTracked) -> Outcomes] :
        LET post == Game_updateBatch(lm, delta, outcome)
        IN /\ post.endlessWaveCount <= BatchWaves
           /\ DidWave("update", post)

NextBatch ==
  \/ BatchFrame
  \/ SpawnCallback
  \/ NextLevel
  \/ Start
  \/ StartFromLevel

SpecBatch == InitBatch /\ [][NextBatch]_vars

\* C13: if an enemy's update throws during a tick, every other enemy of the
\* live list is still updated in that tick, the faulting enemy is removed
\* from the list in that tick, and the tick runs to its end: the removals
\* are made and the wave bookkeeping is done (a wave whose last enemy went is
\* closed and its successor timed; a running wave timer is advanced).
C13_FaultyEnemyIsolated ==
  [][(lop' = "update" /\ lm.gameState = "PLAYING" /\ lm'.batch.threw # {})
       => LET b == lm'.batch
              left == lm.enemies - Cardinality(b.removed)
          IN /\ b.n = lm.enemies
             /\ b.updated = (1..lm.enemies) \ b.threw
             /\ b.threw \subseteq b.removed
             /\ b.removed \subseteq 1..lm.enemies
             /\ lm'.enemies >= left
             /\ (lm'.enemies > left => lm'.currentWave = lm.currentWave + 1)
             /\ (lm.waveActive /\ left = 0)
                  => \/ ~lm'.waveActive
                     \/ lm'.currentWave = lm.currentWave + 1
             /\ (~lm.waveActive /\ lm.waveTimer > 0)
                  => \/ lm'.waveTimer < lm.waveTimer
                     \/ lm'.currentWave = lm.currentWave + 1]_lvars

\* a tick has just ended in which the update of the second of three enemies
\* threw: the first and the third were updated, the second alone was removed
C13_Witness ==
  /\ lop = "update"
  /\ lm.batch.n = 3
  /\ lm.batch.threw = {2}
  /\ lm.batch.updated = {1, 3}
  /\ lm.batch.removed = {2}
  /\ lm.enemies = 2

(***************************************************************************)
(* Survival mode on its own: level 3 from its start, driven by frames,     *)
(* spawn callbacks, pause and resume, and restarts.  The game loop keeps   *)
(* requesting frames and the timeouts of spawnZombieWave do run, which are *)
(* the two fairness conditions.                                            *)
(***************************************************************************)
InitSurvival ==
  /\ lm = startFromLevel(mainMenu(newLevelManager), 3)
  /\ lop = "startFromLevel"
  /\ ret = FALSE
  /\ wev = NULL
  /\ ws = NULL
  /\ wop = NULL
  /\ sim = NULL
  /\ sop = NULL

NextSurvival ==
  \/ LevelFrame
  \/ SpawnCallback
  \/ Pause
  \/ Resume
  \/ RestartLevel

SpecSurvival ==
  /\ InitSurvival
  /\ [][NextSurvival]_vars
  /\ WF_vars(LevelFrame)
  /\ WF_vars(SpawnCallback)

\* survival mode is being played
SurvivalPlay(l) == l.isEndlessMode /\ l.gameState = "PLAYING"

\* this step started the next survival wave
WaveStarted ==
  /\ lm'.waveActive
  /\ lm'.endlessWaveCount = lm.endlessWaveCount + 1
  /\ lm'.currentWave = lm'.endlessWaveCount

\* this step left the wave fields alone
WaveFieldsKept ==
  /\ lm'.waveActive = lm.waveActive
  /\ lm'.waveTimer = lm.waveTimer
  /\ lm'.endlessWaveCount = lm.endlessWaveCount

\* this tick took some delta of Deltas from a wave timer that stood at t:
\* the timer is still above 0 and no wave is active, or the delay has
\* elapsed and the next wave is started
TimerAdvancedFrom(t) ==
  \E delta \in Deltas :
     IF t - delta > 0
     THEN /\ ~lm'.waveActive
          /\ lm'.waveTimer = t - delta
          /\ lm'.endlessWaveCount = lm.endlessWaveCount
     ELSE WaveStarted

\* C14: in survival mode isLevelComplete() is false in every state; a tick
\* that observes an active wave with an empty enemy list starts the wave
\* timer at waveSpawnDelay, every tick in PLAYING takes its delta from the
\* timer, the tick at which the delay has elapsed starts a new wave, and
\* nothing but a tick in PLAYING (or a reload of the level) touches the
\* timer; so whenever no wave is active during survival play, a wave is
\* started later on unless play is interrupted, and there is no last wave.
C14_SurvivalWavesGoOn ==
  /\ [](lm.isEndlessMode
          => /\ ~isLevelComplete(lm)
             /\ lm.gameState \notin {"LEVEL_COMPLETE", "VICTORY"}
             /\ (~lm.waveActive => lm.waveTimer > 0))
  /\ [][(lm.isEndlessMode /\ lop' # "restart")
          => IF lop' = "update" /\ lm.gameState = "PLAYING"
             THEN IF lm.waveActive
                  THEN IF lm'.enemies = 0
                       THEN TimerAdvancedFrom(WaveSpawnDelay)
                       ELSE WaveFieldsKept
                  ELSE TimerAdvancedFrom(lm.waveTimer)
             ELSE WaveFieldsKept]_lvars
  /\ (SurvivalPlay(lm) /\ ~lm.waveActive /\ lm.endlessWaveCount < MaxWaveCount)
       ~> (lm.waveActive \/ ~SurvivalPlay(lm))

\* a tick has just started the second survival wave over an empty arena
C14_Witness ==
  /\ lop = "update"
  /\ SurvivalPlay(lm)
  /\ lm.waveActive
  /\ lm.endlessWaveCount = 2
  /\ lm.enemies = 0
  /\ lm.pending > 0

\* survival play with a wave on, none of its spawns outstanding, and fewer
\* enemies alive than half the population cap
Understaffed ==
  /\ SurvivalPlay(lm)
  /\ lm.waveActive
  /\ lm.pending = 0
  /\ lm.enemies > 0
  /\ 2 * lm.enemies < maxZombiesCap

\* C15 as stated: in survival mode, whenever during play the live enemy
\* count is below half the population cap while a wave is on and none of its
\* spawns is outstanding, enemies are added on the following ticks, without
\* waiting for the next wave, until the count is no longer below half the cap
\* (unless play is interrupted or the wave ends first).
C15_BackgroundRespawn == Understaffed ~> (~Understaffed)

(***************************************************************************)
(* The zombies of a survival wave (spawnZombieWave and its callbacks,      *)
(* src/unnamed/part_003 730-791, and the constructors of the zombie        *)
(* classes).  Stats and multipliers are counted in hundredths, so that     *)
(* 2.5 * 1.08 stays whole.  Math.random() < p is a roll that is either     *)
(* true or false.                                                          *)
(***************************************************************************)
\* the survival waves whose zombies are constructed
SpawnWaves == 30

\* GAME_CONSTANTS.ENEMY, in hundredths
ZombieConfig(type) ==
  CASE type = "ZOMBIE" -> [health |-> 4000, speed |-> 250, damage |-> 1500]
    [] type = "FAT_ZOMBIE" -> [health |-> 15000, speed |-> 150, damage |-> 3000]
    [] type = "FAST_ZOMBIE" -> [health |-> 2500, speed |-> 600, damage |-> 1000]
    [] type = "GUNNER_ZOMBIE" -> [health |-> 5000, speed |-> 200, damage |-> 800]

\* the three multipliers spawnZombieWave computes, in hundredths
healthMultiplier(n) == 100 + (n - 1) * 10
damageMultiplier(n) == 100 + (n - 1) * 5
speedMultiplier(n) == 100 + Min(100, (n - 1) * 8)

\* new ZombieEnemy(game, position, speedMultiplier)
newZombieEnemy(multiplier) ==
  LET config == ZombieConfig("ZOMBIE")
  IN [type |-> "ZOMBIE",
      health |-> config.health,
      maxHealth |-> config.health,
      speed |-> (config.speed * multiplier) \div 100,
      damage |-> config.damage]

\* new GunnerZombieEnemy / FatZombieEnemy / FastZombieEnemy(game, position)
newZombieVariant(type) ==
  LET config == ZombieConfig(type)
  IN [type |-> type,
      health |-> config.health,
      maxHealth |-> config.health,
      speed |-> config.speed,
      damage |-> config.damage]

\* the zombie a spawn callback of wave n constructs; only speedMultiplier is
\* handed on, healthMultiplier and damageMultiplier are computed and dropped
spawnedZombie(n, rolls) ==
  IF n >= 8 /\ rolls[1] THEN newZombieVariant("GUNNER_ZOMBIE")
  ELSE IF n >= 6 /\ rolls[2] THEN newZombieVariant("FAT_ZOMBIE")
  ELSE IF n >= 4 /\ rolls[3] THEN newZombieVariant("FAST_ZOMBIE")
  ELSE newZombieEnemy(speedMultiplier(n))

InitZombie ==
  /\ \E n \in 1..SpawnWaves :
        lm = [newLevelManager EXCEPT !.currentLevel = 3,
                                     !.isEndlessMode = TRUE,
                                     !.maxWave = Infinity,
                                     !.endlessWaveCount = n,
                                     !.currentWave = n,
                                     !.waveActive = TRUE,
                                     !.gameState = "PLAYING"]
  /\ lop = "spawnZombieWave"
  /\ ret = FALSE
  /\ wev = NULL
  /\ ws = NULL
  /\ wop = NULL
  /\ sim = NULL
  /\ sop = NULL

\* a spawn callback constructs its zombie; ret is the zombie
SpawnZombie ==
  \E rolls \in [1..3 -> BOOLEAN] :
     /\ lop' = "spawnZombie"
     /\ ret' = spawnedZombie(lm.endlessWaveCount, rolls)
     /\ UNCHANGED <<lm, wvars, svars>>

NextZombie == SpawnZombie

SpecZombie == InitZombie /\ [][NextZombie]_vars

\* C16 as stated: every enemy spawned during survival wave n has its base
\* stats scaled by the wave's multipliers: health by 1 + 0.10 (n - 1), damage
\* by 1 + 0.05 (n - 1), speed by min(2, 1 + 0.08 (n - 1)).
C16_StatsScaleWithWave ==
  lop = "spawnZombie"
    => LET n == lm.endlessWaveCount
           base == ZombieConfig(ret.type)
       IN /\ 100 * ret.health = base.health * (100 + 10 * (n - 1))
          /\ 100 * ret.maxHealth = base.health * (100 + 10 * (n - 1))
          /\ 100 * ret.damage = base.damage * (100 + 5 * (n - 1))
          /\ 100 * ret.speed = base.speed * Min(200, 100 + 8 * (n - 1))

(***************************************************************************)
(* The boss on its own, hit by the weapons that can take it to exactly 66% *)
(* of its health (BossEnemy.update, checkPhaseChange, startPhaseTransition)*)
(***************************************************************************)
\* the damage of one hit of the machine gun, of the knife and of the sniper
\* rifle: 18 + 50 takes the boss from 200 to 132 health points, which is 66%
BossHits == {HP(18), HP(50), HP(100)}

InitBoss ==
  /\ sim = newWorld("BOSS")
  /\ sop = "restart"
  /\ ws = NULL
  /\ wop = NULL
  /\ lm = NULL
  /\ lop = NULL
  /\ ret = FALSE
  /\ wev = NULL

\* a frame of the game loop with the boss in the level; the distances, in
\* tenths of a unit, are within its attack range and beyond its detection
\* range, and a dash ends where it began
BossFrame ==
  \E delta \in Deltas, d \in {10, 400} :
     DidSim("update", Game_update(Fresh(sim), delta, d, TRUE, d))

\* a hit of the player's weapon on the boss; the machine gun is fired at
\* the unhurt boss only, which keeps the boss's health to a few values
HitBoss ==
  /\ sim.gameState = "PLAYING"
  /\ sim.present
  /\ sim.dealt < sim.e.maxHealth + HP(MaxOverkill)
  /\ \E amount \in {a \in BossHits : a = HP(18) => sim.dealt = 0} :
        DidSim("takeDamage", Enemy_takeDamage(Fresh(sim), amount))

NextBoss ==
  \/ BossFrame
  \/ HitBoss

SpecBoss == InitBoss /\ [][NextBoss]_vars

\* a tick of a live boss that is not in a phase transition: the tick that
\* runs checkPhaseChange
PhaseTick ==
  /\ sop' = "update"
  /\ sim.gameState = "PLAYING"
  /\ sim.present
  /\ ~sim.e.phaseTransitioning

\* the phase changes only in such a tick, only upwards, and starts the
\* transition; a transition never starts without a change of phase, so that
\* a phase is entered at most once and ticks at the same health do not
\* trigger again
PhasesOnlyEscalate ==
  /\ sim'.e.phase >= sim.e.phase
  /\ sim'.e.phase # sim.e.phase
       => /\ PhaseTick
          /\ sim'.e.phaseTransitioning
          /\ sim'.e.phaseTransitionTimer = PhaseTransitionTime
  /\ (sim'.e.phaseTransitioning /\ ~sim.e.phaseTransitioning)
       => sim'.e.phase > sim.e.phase
  /\ (sim.e.phaseTransitioning /\ sop' = "update" /\ sim.gameState = "PLAYING"
        /\ sim.present)
       => sim'.e.phaseTransitionTimer < sim.e.phaseTransitionTimer

\* C17 as stated: the boss enters phase 2 on the first tick that observes
\* health <= 66% of maxHealth while in phase 1, whatever that health is;
\* phases are entered at most once, ticks at the same health do not trigger
\* again, and the phase never decreases.
C17_PhaseTwoOnFirstLowTick ==
  [][/\ (PhaseTick /\ sim.e.phase = 1
           /\ 100 * sim.e.health <= 66 * sim.e.maxHealth)
          => sim'.e.phase = 2
     /\ PhasesOnlyEscalate]_svars

\* C17, amended: the first tick that observes health <= 66% of maxHealth in
\* phase 1 enters phase 2 when the health is above 33%, and enters phase 3
\* directly, never to enter phase 2, when the health is at or below 33%; a
\* tick in phase 2 that observes health <= 33% enters phase 3; no other tick
\* changes the phase; phases are entered at most once, ticks at the same
\* health do not trigger again, and the phase never decreases.
C17_PhasesEscalate ==
  [][/\ PhaseTick
          => sim'.e.phase =
               IF 100 * sim.e.health <= 33 * sim.e.maxHealth THEN 3
               ELSE IF 100 * sim.e.health <= 66 * sim.e.maxHealth
                    THEN Max(sim.e.phase, 2)
                    ELSE sim.e.phase
     /\ PhasesOnlyEscalate]_svars

\* the boss has entered phase 2 in a tick that found it at exactly 66% of
\* its health
C17_Witness ==
  /\ sop = "update"
  /\ sim.e.type = "BOSS"
  /\ sim.e.phase = 2
  /\ sim.e.phaseTransitioning
  /\ sim.e.phaseTransitionTimer = PhaseTransitionTime
  /\ 100 * sim.e.health = 66 * sim.e.maxHealth

(***************************************************************************)
(* The rocket's explosion (Rocket.explode, src/unnamed/part_005 134-168).  *)
(* Distances are in tenths of a unit.  The code computes                   *)
(* Math.floor(maxDamage * (1 - distance / explosionRadius)) in double      *)
(* precision.                                                              *)
(***************************************************************************)
\* GAME_CONSTANTS.ROCKET.EXPLOSION_RADIUS, in tenths
ExplosionRadius == 80
\* GAME_CONSTANTS.ROCKET.EXPLOSION_DAMAGE
ExplosionDamage == 120
\* the distances of the enemy from the explosion, up to this many tenths
MaxBlastDistance == 100

\* the distances, in tenths, at which the double-precision product
\* maxDamage * (1 - distance / explosionRadius) falls just below the whole
\* number it equals in exact arithmetic (1 - 4.4 / 8 is 0.44999999999999996,
\* and 120 times that is 53.99999999999999)
RoundedBelow == {44, 54, 62, 64, 72, 74}

\* explosionDamage without the rounding down to a whole number: the nearest
\* whole number above
explosionDamageCeiling(distance) ==
  (ExplosionDamage * (ExplosionRadius - distance) + ExplosionRadius - 1)
     \div ExplosionRadius

\* Math.floor(maxDamage * damageFactor)
explosionDamage(distance) ==
  LET whole == (ExplosionDamage * (ExplosionRadius - distance))
                  \div ExplosionRadius
  IN IF distance \in RoundedBelow THEN whole - 1 ELSE whole

\* Rocket.explode with one enemy in the level; hits are the amounts passed
\* to enemy.takeDamage
explode(r) ==
  IF r.isDead THEN r
  ELSE LET damage == explosionDamage(r.distance)
       IN [r EXCEPT !.isDead = TRUE,
                    !.hits = IF r.distance <= ExplosionRadius /\ damage > 0
                             THEN Append(@, damage)
                             ELSE @]

InitRocket ==
  /\ \E distance \in 0..MaxBlastDistance :
        sim = [isDead |-> FALSE, distance |-> distance, hits |-> <<>>]
  /\ sop = "fire"
  /\ ws = NULL
  /\ wop = NULL
  /\ wev = NULL
  /\ lm = NULL
  /\ lop = NULL
  /\ ret = FALSE

\* the rocket hits something, or its lifetime ends
Explode == DidSim("explode", explode(sim))

NextRocket == Explode

SpecRocket == InitRocket /\ [][NextRocket]_vars

\* the damage the explosion has dealt the enemy
blastDealt == IF sim.hits = <<>> THEN 0 ELSE sim.hits[1]

\* C18 as stated: an enemy at distance d <= R is dealt exactly D (1 - d/R),
\* an enemy farther than R nothing.
C18_LinearFalloffExact ==
  sop = "explode"
    => IF sim.distance <= ExplosionRadius
       THEN ExplosionRadius * blastDealt
              = ExplosionDamage * (ExplosionRadius - sim.distance)
       ELSE sim.hits = <<>>

\* C18, amended: an enemy at distance d <= R is dealt a whole number of
\* damage, D (1 - d/R) rounded down: at most D (1 - d/R) and at least
\* D (1 - d/R) - 1, in one takeDamage call, and no call at all when that
\* number is 0; exactly D at distance 0, exactly D/2 at R/2, nothing at R or
\* farther.
C18_LinearFalloffFloored ==
  sop = "explode"
    => /\ sim.isDead
       /\ Len(sim.hits) <= 1
       /\ \A i \in 1..Len(sim.hits) : sim.hits[i] > 0
       /\ IF sim.distance <= ExplosionRadius
          THEN /\ ExplosionRadius * blastDealt
                    <= ExplosionDamage * (ExplosionRadius - sim.distance)
               /\ ExplosionRadius * (blastDealt + 1)
                    >= ExplosionDamage * (ExplosionRadius - sim.distance)
          ELSE sim.hits = <<>>
       /\ sim.distance = 0 => blastDealt = ExplosionDamage
       /\ 2 * sim.distance = ExplosionRadius => 2 * blastDealt = ExplosionDamage
       /\ sim.distance = ExplosionRadius => sim.hits = <<>>

\* the explosion has dealt 60 to the enemy at distance 4
C18_Witness ==
  /\ sop = "explode"
  /\ sim.distance = 40
  /\ sim.hits = <<60>>

(***************************************************************************)
(* Detection (checked under SpecEnemy).  The distance of a frame is an     *)
(* input of the frame, so the property of the tick is stated in every      *)
(* reachable state for every frame that can follow it.                     *)
(***************************************************************************)
\* a live enemy of a running game that is idle or on patrol
Unaware ==
  /\ sim.gameState = "PLAYING"
  /\ sim.present
  /\ sim.e.state \in {"IDLE", "PATROL"}

\* the enemy after the frame with the given delta and distance
afterFrame(delta, d) == Game_update(Fresh(sim), delta, d, TRUE, d).e

\* C19 as stated: a tick with the player nearer than detectionRange moves an
\* IDLE or PATROL enemy to ALERT within that tick; a tick with the player
\* farther than detectionRange never moves it to ALERT.
C19_DetectionInOneTick ==
  Unaware
    => \A delta \in Deltas, d \in Distances(sim.e.type) :
          /\ d < 10 * sim.e.detectionRange => afterFrame(delta, d).state = "ALERT"
          /\ d > 10 * sim.e.detectionRange => afterFrame(delta, d).state # "ALERT"

\* C19, amended: the same, except for a boss in its phase transition, whose
\* tick only counts the transition down and leaves its state as it is,
\* however near the player.
C19_DetectionOutsideTransition ==
  Unaware
    => \A delta \in Deltas, d \in Distances(sim.e.type) :
          IF sim.e.type = "BOSS" /\ sim.e.phaseTransitioning
          THEN afterFrame(delta, d).state = sim.e.state
          ELSE /\ d < 10 * sim.e.detectionRange
                    => afterFrame(delta, d).state = "ALERT"
               /\ d > 10 * sim.e.detectionRange
                    => afterFrame(delta, d).state # "ALERT"

\* a tick has just moved a basic enemy to ALERT
C19_Witness ==
  /\ sop = "update"
  /\ sim.e.type = "BASIC"
  /\ sim.present
  /\ sim.e.state = "ALERT"
  /\ sim.e.stateTimer = 0

(***************************************************************************)
(* The campaign: from the main menu the player starts the game and         *)
(* defeats at least one enemy in every frame that has one, and never dies. *)
(* Frames, spawn callbacks and the timeout of levelComplete keep running.  *)
(***************************************************************************)
\* a frame of the game loop in which the player defeats enemies.  The wave
\* counter of level 3 grows without bound; past MaxWaveCount it is kept at
\* MaxWaveCount, which changes nothing else: spawnZombieWave reads it only in
\* min(maxZombiesCap, 5 + floor(count / 2)), which is maxZombiesCap from
\* wave 10 on, and isLevelComplete does not read it in endless mode
CampaignFrame ==
  \E delta \in Deltas, removed \in Min(1, lm.enemies)..lm.enemies :
     LET post == Game_updateLevel(lm, delta, removed, FALSE)
     IN /\ post.pending <= MaxPending
        /\ DidWave("update",
                   IF post.isEndlessMode
                   THEN [post EXCEPT
                           !.endlessWaveCount = Min(@, MaxWaveCount),
                           !.currentWave = Min(@, MaxWaveCount)]
                   ELSE post)

NextCampaign ==
  \/ CampaignFrame
  \/ SpawnCallback
  \/ NextLevel
  \/ Start

SpecCampaign ==
  /\ InitWave
  /\ [][NextCampaign]_vars
  /\ WF_vars(CampaignFrame)
  /\ WF_vars(SpawnCallback)
  /\ WF_vars(NextLevel)
  /\ WF_vars(Start)

\* C20 as stated: starting from the main menu and defeating every enemy,
\* the game passes level 1, level 2 and level 3 and reaches VICTORY.
C20_CampaignReachesVictory == <>(lm.gameState = "VICTORY")

\* what the campaign does reach: level 3 after levels 1 and 2, and from then
\* on level 3 for ever, in play, with no victory
LevelThreeForEver ==
  <>[](lm.currentLevel = 3 /\ lm.gameState = "PLAYING" /\ lm.isEndlessMode)

\* no behaviour of the game, a campaign or not, shows VICTORY
VictoryNeverShown == lm.gameState # "VICTORY"

(***************************************************************************)
(* Movement.  Positions are in tenths of a unit on the ground plane.  The  *)
(* normalised direction to a target is kept as one of the eight compass    *)
(* directions, and a step, direction * speed * delta, is StepLength along  *)
(* each axis the direction has.  The player stands at one of a few spots   *)
(* and walks between them.  The zombie's lastPosition is read only in      *)
(* distMoved < 0.05 and is kept as moved: whether the position differs     *)
(* from it.                                                                *)
(***************************************************************************)
\* speed * delta along an axis, in tenths
StepLength == 10
\* scaled stuck time of the zombie before it strafes (0.3 s in the source)
StuckDwell == 1
\* scaled stuck time after which the strafing is reset (1.5 s)
StrafeReset == 3

\* the colliders of the level: createBoundaryWalls, and the crate of level 1
\* at (8, 8); boxes of tombstones and trunks stand in level 3
Colliders ==
  {[x1 |-> -250, x2 |-> 250, z1 |-> 245, z2 |-> 255],
   [x1 |-> -250, x2 |-> 250, z1 |-> -255, z2 |-> -245],
   [x1 |-> 245, x2 |-> 255, z1 |-> -250, z2 |-> 250],
   [x1 |-> -255, x2 |-> -245, z1 |-> -250, z2 |-> 250],
   [x1 |-> 70, x2 |-> 90, z1 |-> 70, z2 |-> 90]}

\* where the player stands
PlayerSpots == {<<0, 0>>, <<200, 200>>}

\* Math.max(-23, Math.min(23, v))
clampToArena(v) == Max(-230, Min(230, v))

\* the sign of a number
Sgn(v) == IF v > 0 THEN 1 ELSE IF v < 0 THEN -1 ELSE 0

\* direction.subVectors(target, position).normalize()
directionTo(e, target) == <<Sgn(target[1] - e.x), Sgn(target[2] - e.z)>>

\* position.distanceTo(target) < range, the range in units
within(e, target, range) ==
  (target[1] - e.x) * (target[1] - e.x) + (target[2] - e.z) * (target[2] - e.z)
    < (10 * range) * (10 * range)

\* Enemy.checkCollision: the sphere of radius 0.8 against each box
checkCollision(x, z) ==
  \E box \in Colliders :
     LET cx == Max(box.x1, Min(box.x2, x))
         cz == Max(box.z1, Min(box.z2, z))
     IN (x - cx) * (x - cx) + (z - cz) * (z - cz) < 8 * 8

\* Enemy.moveTowards
moveTowards(e, target) ==
  LET direction == directionTo(e, target)
      nx == e.x + direction[1] * StepLength
      nz == e.z + direction[2] * StepLength
      moved == IF ~checkCollision(nx, nz)
               THEN [e EXCEPT !.x = nx, !.z = nz]
               ELSE [e EXCEPT !.x = IF ~checkCollision(nx, e.z) THEN nx ELSE @,
                              !.z = IF ~checkCollision(e.x, nz) THEN nz ELSE @]
  IN [moved EXCEPT !.x = clampToArena(@), !.z = clampToArena(@)]

\* Enemy.updateChase; distance is the one Enemy.update measured
Enemy_updateChase(e, from, playerPos) ==
  IF within(from, playerPos, EnemyConfig(e.type).attackRange) THEN e
  ELSE IF ~within(from, playerPos, (3 * EnemyConfig(e.type).detectionRange) \div 2 + 1)
       THEN e
       ELSE moveTowards(e, playerPos)

\* ZombieEnemy.strafeAroundObstacle
strafeAroundObstacle(e, playerPos) ==
  LET toPlayer == directionTo(e, playerPos)
      nx == e.x - (3 * toPlayer[2] * e.strafeDirection * StepLength) \div 2
      nz == e.z + (3 * toPlayer[1] * e.strafeDirection * StepLength) \div 2
      strafed == IF ~checkCollision(nx, nz)
                 THEN [e EXCEPT !.x = nx, !.z = nz]
                 ELSE [e EXCEPT !.strafeDirection = -@]
  IN IF e.stuckTimer > StrafeReset
     THEN [strafed EXCEPT !.stuckTimer = 0, !.strafeDirection = 0]
     ELSE strafed

\* ZombieEnemy.updateChase; r is the outcome of Math.random() > 0.5
Zombie_updateChase(e, delta, playerPos, r) ==
  LET timed == [e EXCEPT !.stuckTimer = @ + delta]
      chosen == IF timed.strafeDirection = 0
                THEN [timed EXCEPT !.strafeDirection = IF r THEN 1 ELSE -1]
                ELSE timed
      unstuck == IF ~e.moved /\ ~within(e, playerPos, EnemyConfig(e.type).attackRange)
                 THEN IF timed.stuckTimer > StuckDwell
                      THEN strafeAroundObstacle(chosen, playerPos)
                      ELSE timed
                 ELSE [e EXCEPT !.stuckTimer = 0, !.strafeDirection = 0]
      chased == Enemy_updateChase(unstuck, e, playerPos)
  IN [chased EXCEPT !.moved = chased.x # unstuck.x \/ chased.z # unstuck.z]

\* GunnerZombieEnemy.updateChase
Gunner_updateChaseMove(e, playerPos) ==
  LET away == directionTo([x |-> playerPos[1], z |-> playerPos[2]], <<e.x, e.z>>)
      nx == e.x + away[1] * StepLength
      nz == e.z + away[2] * StepLength
  IN IF within(e, playerPos, EnemyConfig(e.type).attackRange) /\ ~within(e, playerPos, 5)
     THEN e
     ELSE IF within(e, playerPos, 5)
          THEN IF ~checkCollision(nx, nz) THEN [e EXCEPT !.x = nx, !.z = nz] ELSE e
          ELSE Enemy_updateChase(e, e, playerPos)

\* BossEnemy.performDashAttack: 5 units along the direction
performDash(e, targetPos) ==
  LET direction == directionTo(e, targetPos)
      dash == IF direction[1] # 0 /\ direction[2] # 0 THEN 35 ELSE 50
  IN [e EXCEPT !.x = clampToArena(@ + dash * direction[1]),
               !.z = clampToArena(@ + dash * direction[2])]

\* the enemy's tick in PATROL or CHASE, and the boss's dash; the patrol
\* point is the first of the four that generatePatrolPoints sets 5 units
\* around the place of the enemy's construction
moveEnemy(e, state, delta, r) ==
  LET playerPos == <<e.px, e.pz>>
  IN CASE state = "PATROL" -> moveTowards(e, <<e.sx + 50, e.sz>>)
       [] state = "DASH" -> performDash(e, playerPos)
       [] e.type = "ZOMBIE" -> Zombie_updateChase(e, delta, playerPos, r)
       [] e.type = "GUNNER_ZOMBIE" -> Gunner_updateChaseMove(e, playerPos)
       [] OTHER -> Enemy_updateChase(e, e, playerPos)

\* the positions at which enemies are constructed: a spawn of level 1's
\* list for spawnEnemy, and for the zombies of a wave the spawn point
\* (22, 22) with an offset (Math.random() - 0.5) * 4 on the x axis
spawnPositions(type) ==
  IF type \in {"ZOMBIE", "GUNNER_ZOMBIE"}
  THEN {<<220 + ox, 220>> : ox \in {-20, 0, 15}}
  ELSE {<<100, 100>>}

\* the constructor of the enemy at the position
spawnedAt(type, position, playerPos) ==
  [type |-> type, x |-> position[1], z |-> position[2],
   sx |-> position[1], sz |-> position[2],
   moved |-> FALSE, stuckTimer |-> 0, strafeDirection |-> 0,
   px |-> playerPos[1], pz |-> playerPos[2]]

InitMove ==
  /\ \E type \in {"BASIC", "ZOMBIE", "GUNNER_ZOMBIE", "BOSS"} :
        \E position \in spawnPositions(type) :
           sim = spawnedAt(type, position, <<0, 0>>)
  /\ sop = "spawn"
  /\ ws = NULL
  /\ wop = NULL
  /\ wev = NULL
  /\ lm = NULL
  /\ lop = NULL
  /\ ret = FALSE

\* a tick of the enemy in PATROL or CHASE, or with the boss's dash
MoveTick ==
  \E state \in {"PATROL", "CHASE"} \cup (IF sim.type = "BOSS" THEN {"DASH"} ELSE {}),
     delta \in IF sim.type = "ZOMBIE" THEN Deltas ELSE {1},
     r \in IF sim.type = "ZOMBIE" /\ sim.strafeDirection = 0 THEN BOOLEAN ELSE {TRUE} :
       /\ sim.stuckTimer + delta <= StrafeReset + 2
       /\ DidSim(state, moveEnemy(sim, state, delta, r))

\* the player walks to another spot
MovePlayer ==
  \E spot \in PlayerSpots :
     DidSim("player", [sim EXCEPT !.px = spot[1], !.pz = spot[2]])

NextMove ==
  \/ MoveTick
  \/ MovePlayer

SpecMove == InitMove /\ [][NextMove]_vars

\* the targets an enemy is moved towards: the player and the patrol point
MoveTargets == {<<sim.px, sim.pz>>, <<sim.sx + 50, sim.sz>>}

\* C21 as stated: when the probe reports the full step blocked, moveTowards
\* commits an axis-aligned step the probe reports unblocked, leaves the
\* position as it is when both are blocked, and never ends at the full-step
\* position.
C21_BlockedStepSlides ==
  \A target \in MoveTargets :
     LET direction == directionTo(sim, target)
         nx == sim.x + direction[1] * StepLength
         nz == sim.z + direction[2] * StepLength
         after == moveTowards(sim, target)
     IN checkCollision(nx, nz)
          => /\ <<after.x, after.z>> # <<nx, nz>>
             /\ (checkCollision(nx, sim.z) /\ checkCollision(sim.x, nz))
                  => <<after.x, after.z>> = <<sim.x, sim.z>>
             /\ <<after.x, after.z>> \in
                  {<<sim.x, sim.z>>}
                    \cup (IF checkCollision(nx, sim.z) THEN {} ELSE {<<nx, sim.z>>})
                    \cup (IF checkCollision(sim.x, nz) THEN {} ELSE {<<sim.x, nz>>})

\* C22 as stated: every enemy's x and z lie within the arena bounds, at
\* spawn and after every movement step.
C22_WithinArena ==
  /\ sim.x >= -230 /\ sim.x <= 230
  /\ sim.z >= -230 /\ sim.z <= 230


(***************************************************************************)
(* Switching weapons (WeaponSystem.equipWeapon)                            *)
(***************************************************************************)
\* C23 as stated: after equipWeapon(type) for a registered type no reload and
\* no melee swing is in progress, and the switch moves no ammunition (the
\* reload it interrupts gives nothing to the weapon that was left).
C23_EquipCancelsReloadAndSwing ==
  \A type \in Registered :
    LET after == equipWeapon(ws, type)
    IN /\ ~after.isReloading
       /\ ~after.isKnifeSwinging
       /\ after.weapons = ws.weapons

\* the part of C23 the code keeps: the reload is cancelled without ammunition
\* changing hands
EquipCancelsReload ==
  \A type \in Registered :
    LET after == equipWeapon(ws, type)
    IN /\ ~after.isReloading
       /\ after.reloadTimer = 0
       /\ after.weapons = ws.weapons

\* C24 as stated: when weapon A has just fired and the player switches at once
\* to another weapon B that has ammunition, shoot() on B fires (takes a round
\* from B's magazine) without waiting for A's fire-rate cooldown.
C24_CooldownNotCarried ==
  \A B \in Registered \ {"KNIFE", ws.currentWeaponType} :
    LET fired == shoot(ws)
        switched == equipWeapon(fired, B)
        shot == shoot(switched)
    IN (/\ ShootReachesAmmoCheck(ws)
        /\ cur(ws).currentAmmo > 0
        /\ switched.weapons[B].currentAmmo > 0)
       => shot.weapons[B].currentAmmo = switched.weapons[B].currentAmmo - 1


(***************************************************************************)
(* The staggered spawns of a survival wave (checked under SpecWave)        *)
(***************************************************************************)
\* C25 as stated: every spawn a survival wave has scheduled adds its enemy to
\* the live list, whatever happens between the wave's start and the
\* callback, so that the wave adds exactly its deficit.
C25_WaveAddsDeficit ==
  lm.pending > 0 => spawnCallback(lm).enemies = lm.enemies + 1

\* C25, amended: a survival wave n schedules exactly the deficit
\* max(0, min(maxZombiesCap, 5 + floor(n / 2)) - live count) of spawn
\* callbacks; a callback adds one enemy when it runs in PLAYING with the
\* list below the cap, and nothing otherwise.  The wave adds at most its
\* deficit, and less when callbacks run while the game is not PLAYING.
C25_WaveAddsUpToDeficit ==
  [][/\ (lop' = "update" /\ lm'.endlessWaveCount # lm.endlessWaveCount)
          => /\ lm'.endlessWaveCount = lm.endlessWaveCount + 1
             /\ lm'.pending - lm.pending =
                  Max(0, Min(maxZombiesCap, 5 + (lm'.endlessWaveCount \div 2))
                         - lm'.enemies)
     /\ lop' = "spawn"
          => /\ lm'.pending = lm.pending - 1
             /\ lm'.enemies =
                  IF lm.gameState = "PLAYING" /\ lm.enemies < maxZombiesCap
                  THEN lm.enemies + 1
                  ELSE lm.enemies]_vars

\* a spawn callback has run while the game was paused in survival mode, and
\* spawns of the wave are still to come
C25_Witness ==
  /\ lop = "spawn"
  /\ lm.isEndlessMode
  /\ lm.gameState = "PAUSED"
  /\ lm.endlessWaveCount >= 2
  /\ lm.enemies > 0
  /\ lm.pending > 0


FrameFrozenOutsidePlay ==
  sim.gameState # "PLAYING"
    => \A delta \in Deltas, d \in Distances(sim.e.type), r \in BOOLEAN :
         Game_update(sim, delta, d, r, d) = sim


(***************************************************************************)
(* The removal of dead enemies (checked under SpecEnemy)                   *)
(***************************************************************************)
\* C27 as stated: every PLAYING tick counts towards a dying enemy's time
\* since death, and the enemy leaves the live list in the first tick that
\* takes this time past the death delay, not earlier; for every variant,
\* the boss in or before a phase transition included.
C27_DeadRemovedAfterDelay ==
  (sim.gameState = "PLAYING" /\ sim.present /\ sim.e.isDying)
    => \A delta \in Deltas, d \in Distances(sim.e.type) :
         LET after == Game_update(Fresh(sim), delta, d, TRUE, d)
         IN /\ after.present <=> (sim.e.deathTimer + delta <= DeathDelay)
            /\ after.e.deathTimer = sim.e.deathTimer + delta

\* what the code keeps of C27: the same for every enemy but a boss in a
\* phase transition, and no enemy is removed with its death timer at or
\* below the delay
DeadRemovedOutsideTransition ==
  /\ (sim.gameState = "PLAYING" /\ sim.present /\ sim.e.isDying
        /\ ~sim.e.phaseTransitioning)
       => \A delta \in Deltas, d \in Distances(sim.e.type) :
            LET after == Game_update(Fresh(sim), delta, d, TRUE, d)
            IN /\ after.present <=> (sim.e.deathTimer + delta <= DeathDelay)
               /\ after.e.deathTimer = sim.e.deathTimer + delta
  /\ ~sim.present => (sim.e.isDying /\ sim.e.deathTimer > DeathDelay)


(***************************************************************************)
(* The waves of a scripted level (checked under SpecWave)                  *)
(***************************************************************************)
\* C28: in a scripted level the wave counter is between 1 and maxWave; a
\* load of the level starts wave 1 with exactly its enemies; afterwards the
\* counter changes only in a frame, by one, with exactly the enemies of the
\* new wave added and nothing else alive unless a spawn callback left over
\* from a survival wave put it there, and not before the wave delay set
\* when the list became empty has been counted down.
C28_ScriptedWavesInOrder ==
  [][~lm'.isEndlessMode =>
       /\ lm'.currentWave \in 1..lm'.maxWave
       /\ lop' \in {"mainMenu", "restart", "nextLevel", "startFromLevel"}
            /\ lm'.gameState # "VICTORY"
            => /\ lm'.currentWave = 1
               /\ lm'.enemies = waveSpawns(lm'.currentLevel, 1)
               /\ lm'.waveActive
       /\ (lop' \notin {"mainMenu", "restart", "nextLevel", "startFromLevel"}
             /\ lm'.currentWave # lm.currentWave)
            => /\ lop' = "update"
               /\ lm.gameState = "PLAYING"
               /\ lm'.currentWave = lm.currentWave + 1
               /\ lm'.waveActive
               /\ lm'.waveTimer <= 0
               /\ lm.waveTimer > 0 \/ (lm.waveActive /\ lm.enemies > 0)
               /\ lm'.enemies >= waveSpawns(lm.currentLevel, lm'.currentWave)
               /\ lm'.enemies <= lm.enemies
                                   + waveSpawns(lm.currentLevel, lm'.currentWave)
               /\ lm.waveActive
                    => lm'.enemies = waveSpawns(lm.currentLevel, lm'.currentWave)
       /\ (lop' = "update" /\ lm.waveActive /\ ~lm'.waveActive
             /\ lm'.currentWave < lm'.maxWave)
            => lm'.waveTimer \in {WaveSpawnDelay - delta : delta \in Deltas}
       /\ (lop' = "update" /\ lm.gameState = "PLAYING" /\ ~lm.waveActive
             /\ lm.waveTimer > 0)
            => lm'.waveTimer \in {lm.waveTimer - delta : delta \in Deltas}]_vars

\* the last wave of level 2 has been started by a frame
C28_Witness ==
  /\ lop = "update"
  /\ ~lm.isEndlessMode
  /\ lm.currentLevel = 2
  /\ lm.currentWave = 3
  /\ lm.waveActive
  /\ lm.enemies = 3
  /\ lm.gameState = "PLAYING"


(***************************************************************************)
(* The reaction delay of ALERT (checked under SpecEnemy)                   *)
(***************************************************************************)
\* C29: an enemy enters ALERT with its state timer at 0; while it is in
\* ALERT a tick adds at most its length to the timer and takes the enemy to
\* CHASE only if the timer then is past the alert dwell, whatever the
\* player's distance; a hit leaves an alert enemy in ALERT with the timer
\* as it was, unless it kills.
C29_AlertDwellNotSkipped ==
  /\ \A delta \in Deltas, d \in Distances(sim.e.type) :
       LET after == Game_update(Fresh(sim), delta, d, TRUE, d).e
       IN /\ (sim.e.state # "ALERT" /\ after.state = "ALERT")
               => after.stateTimer = 0
          /\ sim.e.state = "ALERT"
               => /\ after.state \in {"ALERT", "CHASE"}
                  /\ after.state = "CHASE"
                       => sim.e.stateTimer + delta > AlertDwell
                  /\ after.state = "ALERT"
                       => after.stateTimer <= sim.e.stateTimer + delta
  /\ \A amount \in DamageAmounts :
       LET after == Enemy_takeDamage(Fresh(sim), amount).e
       IN /\ after.state = "ALERT" => sim.e.state = "ALERT"
          /\ sim.e.state = "ALERT"
               => IF after.health <= 0
                  THEN after.state = "DEAD"
                  ELSE after.state = "ALERT"
                         /\ after.stateTimer = sim.e.stateTimer

\* a hit has just left an enemy alive and in ALERT, its dwell begun and not
\* yet over
C29_Witness ==
  /\ sop = "takeDamage"
  /\ sim.e.state = "ALERT"
  /\ sim.e.stateTimer = AlertDwell
  /\ sim.e.health < sim.e.maxHealth
  /\ sim.e.health > 0


(***************************************************************************)
(* The attack cooldown (checked under SpecEnemy)                           *)
(***************************************************************************)
\* C30: the calls a tick makes on the player without a special attack are
\* those of its regular attack, and they add up to one attack's damage at
\* most.  A tick makes them only for an enemy in ATTACK whose attack timer,
\* counted down by the tick, has run out, and leaves the timer at
\* attackCooldown.  A tick never takes more than its length off the timer
\* and a hit on the enemy leaves the timer alone, so that attackCooldown of
\* tick time lies between two regular attacks.
C30_AttackCooldownKept ==
  /\ \A delta \in Deltas, d \in Distances(sim.e.type), r \in BOOLEAN :
       LET after == Game_update(Fresh(sim), delta, d, r, d)
           counted == IF sim.e.attackTimer > 0
                      THEN sim.e.attackTimer - delta
                      ELSE sim.e.attackTimer
           special == /\ sim.e.type = "BOSS"
                      /\ sim.e.specialAttackTimer - delta <= 0
       IN /\ ~special => after.pdealt \in {0, after.e.damage}
          /\ (~special /\ after.pdealt > 0)
               => /\ sim.gameState = "PLAYING"
                  /\ sim.e.state = "ATTACK"
                  /\ ~sim.e.isDying
                  /\ counted <= 0
                  /\ after.e.attackTimer = after.e.attackCooldown
                  /\ after.e.attackCooldown > 0
          /\ after.e.attackTimer >= sim.e.attackTimer - delta
          /\ after.e.attackTimer \in {sim.e.attackTimer, counted,
                                      after.e.attackCooldown}
  /\ \A amount \in DamageAmounts :
       Enemy_takeDamage(Fresh(sim), amount).e.attackTimer = sim.e.attackTimer

\* a tick has just made an enemy's regular attack on a player who had been
\* hit at least once before
C30_Witness ==
  /\ sop = "update"
  /\ sim.e.state = "ATTACK"
  /\ sim.e.type # "BOSS"
  /\ sim.e.attackTimer = sim.e.attackCooldown
  /\ sim.pdealt = sim.e.damage
  /\ sim.p.health <= sim.p.maxHealth - 2 * sim.e.damage
  /\ sim.gameState = "PLAYING"


(***************************************************************************)
(* The margin between CHASE and ATTACK (checked under SpecEnemy)           *)
(***************************************************************************)
\* C31: a tick takes an enemy from ATTACK to CHASE only if the distance it
\* sees is above 1.2 x attackRange, and from CHASE to ATTACK only if the
\* distance is below attackRange; with the player kept at one distance, two
\* successive ticks never go CHASE, ATTACK, CHASE or ATTACK, CHASE, ATTACK.
C31_NoFlapping ==
  \A d \in Distances(sim.e.type),
     r \in IF sim.e.type = "GUNNER_ZOMBIE" THEN BOOLEAN ELSE {TRUE} :
    \A delta \in Deltas :
      LET first == Game_update(Fresh(sim), delta, d, r, d)
      IN /\ (sim.e.state = "ATTACK" /\ first.e.state = "CHASE")
              => d > 12 * sim.e.attackRange
         /\ (sim.e.state = "CHASE" /\ first.e.state = "ATTACK")
              => d < 10 * sim.e.attackRange
         /\ \A delta2 \in Deltas :
              LET second == Game_update(Fresh(first), delta2, d, r, d)
              IN <<sim.e.state, first.e.state, second.e.state>>
                   \notin {<<"CHASE", "ATTACK", "CHASE">>,
                           <<"ATTACK", "CHASE", "ATTACK">>}

\* a tick has just sent an enemy that had attacked back from ATTACK to CHASE
C31_Witness ==
  /\ sop = "update"
  /\ sim.e.state = "CHASE"
  /\ sim.e.stateTimer = 0
  /\ sim.e.attackTimer > 0
  /\ sim.p.health < sim.p.maxHealth
  /\ sim.e.type = "GUNNER_ZOMBIE"


(***************************************************************************)
(* stateTimer at a change of state (checked under SpecEnemy)               *)
(***************************************************************************)
\* C32 as stated: whenever a tick or a hit leaves the enemy in another state
\* than it found it in, death included, the state timer is 0 afterwards.
C32_StateChangeResetsTimer ==
  /\ \A delta \in Deltas, d \in Distances(sim.e.type), r \in BOOLEAN :
       LET after == Game_update(Fresh(sim), delta, d, r, d).e
       IN after.state # sim.e.state => after.stateTimer = 0
  /\ \A amount \in DamageAmounts :
       LET after == Enemy_takeDamage(Fresh(sim), amount).e
       IN after.state # sim.e.state => after.stateTimer = 0

\* what the code keeps of C32: the same for every change of state but the
\* one to DEAD
LivingStateChangeResetsTimer ==
  /\ \A delta \in Deltas, d \in Distances(sim.e.type), r \in BOOLEAN :
       LET after == Game_update(Fresh(sim), delta, d, r, d).e
       IN after.state # sim.e.state => after.stateTimer = 0
  /\ \A amount \in DamageAmounts :
       LET after == Enemy_takeDamage(Fresh(sim), amount).e
       IN (after.state # sim.e.state /\ after.state # "DEAD")
            => after.stateTimer = 0


(***************************************************************************)
(* The hit resolutions of shoot() (checked under SpecWeapon)               *)
(***************************************************************************)
\* WEAPONS.*.pellets: the raycasts of one shot; RIFLE stands for the
\* finite-ammo weapons, of which the shotgun fires 8 pellets
pellets(t) == IF t = "RIFLE" THEN 8 ELSE 1

\* the hit resolutions one call of shoot() makes in state s: none when a
\* guard returns or the magazine is empty, the one raycast of knifeAttack
\* for the knife, one performRaycast per pellet for a firearm
hitResolutions(s) ==
  IF s.fireTimer > 0 \/ s.isReloading \/ s.isKnifeSwinging THEN 0
  ELSE IF s.currentWeaponType = "KNIFE" THEN 1
  ELSE IF cur(s).currentAmmo <= 0 THEN 0
  ELSE pellets(s.currentWeaponType)

\* C33: while the fire timer is above 0, a reload is in progress or a melee
\* swing is in progress, shoot() leaves the weapon system as it is
\* (magazines, reserves, fire timer, reload and swing state) and resolves no
\* hit.
C33_ShootGuardsAreNoOps ==
  (ws.fireTimer > 0 \/ ws.isReloading \/ ws.isKnifeSwinging)
    => /\ shoot(ws) = ws
       /\ hitResolutions(ws) = 0

\* shoot() has just been called during the reload of a magazine that still
\* held a round, with the fire timer run out
C33_Witness ==
  /\ wop = "shoot"
  /\ ws.isReloading
  /\ ws.fireTimer <= 0
  /\ ws.currentWeaponType # "KNIFE"
  /\ cur(ws).currentAmmo > 0


\* C34: a knife shoot() that passes the guards starts a swing of
\* KnifeSwingTime, changes no magazine or reserve and resolves exactly one
\* hit; while the swing lasts shoot() resolves none; and a swing is ended
\* only by an update whose tick takes the swing timer to 0 or below.
C34_KnifeSwingOneHit ==
  [][/\ (ws.currentWeaponType = "KNIFE" /\ ShootReachesAmmoCheck(ws))
          => /\ shoot(ws).isKnifeSwinging
             /\ shoot(ws).knifeSwingTimer = KnifeSwingTime
             /\ shoot(ws).weapons = ws.weapons
             /\ hitResolutions(ws) = 1
     /\ ws.isKnifeSwinging
          => /\ ws.knifeSwingTimer > 0
             /\ hitResolutions(ws) = 0
             /\ shoot(ws) = ws
     /\ (ws.isKnifeSwinging /\ ~ws'.isKnifeSwinging)
          => /\ wop' = "update"
             /\ \E delta \in Deltas : ws.knifeSwingTimer - delta <= 0
     /\ (ws.isKnifeSwinging /\ ws'.isKnifeSwinging)
          => ws'.knifeSwingTimer <= ws.knifeSwingTimer]_vars

\* the knife has just been swung
C34_Witness ==
  /\ wop = "shoot"
  /\ ws.currentWeaponType = "KNIFE"
  /\ ws.isKnifeSwinging
  /\ ws.knifeSwingTimer = KnifeSwingTime
  /\ ws.fireTimer = fireRate("KNIFE")


(***************************************************************************)
(* The gunner zombie at close quarters (checked under SpecEnemy)           *)
(***************************************************************************)
\* the distances of Distances("GUNNER_ZOMBIE") below the 5 units at which
\* GunnerZombieEnemy.updateChase backs away
TooClose == {d \in Distances("GUNNER_ZOMBIE") : d < 50}

\* C35 as stated: on every tick with the player closer than 5 units a living
\* gunner zombie in CHASE or ATTACK does not fire: no attack is made on the
\* player and the attack timer is not restarted.
C35_GunnerHoldsFireWhenClose ==
  (/\ sim.e.type = "GUNNER_ZOMBIE"
   /\ sim.e.state \in {"CHASE", "ATTACK"}
   /\ sim.gameState = "PLAYING"
   /\ sim.present)
    => \A delta \in Deltas, d \in TooClose, r \in BOOLEAN :
         LET after == Game_update(Fresh(sim), delta, d, r, d)
         IN /\ after.pdealt = 0
            /\ after.e.attackTimer <= sim.e.attackTimer

\* what the code keeps of C35: the same for a gunner zombie in CHASE, which
\* also stays in CHASE
GunnerHoldsFireInChase ==
  (/\ sim.e.type = "GUNNER_ZOMBIE"
   /\ sim.e.state = "CHASE"
   /\ sim.gameState = "PLAYING"
   /\ sim.present)
    => \A delta \in Deltas, d \in TooClose, r \in BOOLEAN :
         LET after == Game_update(Fresh(sim), delta, d, r, d)
         IN /\ after.pdealt = 0
            /\ after.e.attackTimer <= sim.e.attackTimer
            /\ after.e.state = "CHASE"


(***************************************************************************)
(* The mystery box (src/unnamed/part_004) and the player's coins           *)
(* (Game.coins), on level 3.  sim holds the coins and the box, ws the      *)
(* weapon system.  History, written by no method's own logic: paid, the    *)
(* last frame's interaction took the box's cost off the coins, and drawn,  *)
(* what MysteryBox.use() returned in it.                                   *)
(***************************************************************************)
\* scaled MYSTERY_BOX.COST (150 coins in the source), in kills' worth of
\* coins (10 coins in the source)
BoxCost == 2
\* coins are earned up to this many kills' worth
MaxCoins == 5
\* scaled MysteryBox.openDuration (2 s in the source)
OpenDuration == 2

\* a new level 3: Game.coins = 0, a closed box, the weapon system in
\* zombie mode
newBoxWorld ==
  [coins |-> 0, isOpen |-> FALSE, openTimer |-> 0,
   paid |-> FALSE, drawn |-> NULL]

\* MysteryBox.use; draw is the weapon Math.random() picks
MysteryBox_use(b, draw) ==
  IF b.isOpen THEN [b EXCEPT !.drawn = NULL]
  ELSE [b EXCEPT !.isOpen = TRUE, !.openTimer = 0, !.drawn = draw]

\* MysteryBox.update
MysteryBox_update(b, delta) ==
  IF ~b.isOpen THEN b
  ELSE IF b.openTimer + delta >= OpenDuration
       THEN [b EXCEPT !.isOpen = FALSE, !.openTimer = b.openTimer + delta]
       ELSE [b EXCEPT !.openTimer = b.openTimer + delta]

\* Game.spendCoins
spendCoins(b, amount) ==
  IF b.coins >= amount
  THEN [b EXCEPT !.coins = @ - amount, !.paid = TRUE]
  ELSE b

\* Player.checkMysteryBoxInteraction with the box in reach: the box and the
\* coins after it
interactBox(b, press, draw) ==
  LET fresh == [b EXCEPT !.paid = FALSE, !.drawn = NULL]
  IN IF press /\ b.coins >= BoxCost
     THEN MysteryBox_use(spendCoins(fresh, BoxCost), draw)
     ELSE fresh

\* and the weapon system after it
interactWeapons(s, b, press, draw) ==
  LET used == interactBox(b, press, draw)
  IN IF used.paid /\ used.drawn # NULL
     THEN giveMysteryBoxWeapon(s, used.drawn)
     ELSE s

InitBox ==
  /\ ws = configureZombieMode(newWeaponSystem)
  /\ wop = "configureZombieMode"
  /\ wev = NULL
  /\ sim = newBoxWorld
  /\ sop = "loadLevel"
  /\ lm = NULL
  /\ lop = NULL
  /\ ret = FALSE

\* a frame on level 3 with the box in reach: Player.update (the weapon
\* system's update, the E key, checkTemporaryWeaponEmpty), then
\* LevelManager.update (the box's update)
BoxFrame ==
  \E delta \in Deltas, press \in BOOLEAN, draw \in MysteryBoxWeapons :
     /\ ws' = checkTemporaryWeaponEmpty(
                interactWeapons(update(ws, delta), sim, press, draw))
     /\ sim' = MysteryBox_update(interactBox(sim, press, draw), delta)
     /\ wop' = "frame"
     /\ sop' = "frame"
     /\ wev' = NULL
     /\ UNCHANGED lvars

\* Game.addScore on level 3: a kill's coins
AddCoins ==
  /\ sim.coins < MaxCoins
  /\ sim' = [sim EXCEPT !.coins = @ + 1, !.paid = FALSE, !.drawn = NULL]
  /\ sop' = "addCoins"
  /\ UNCHANGED <<wvars, lvars>>

\* the player fires the weapon in hand
BoxShoot ==
  /\ ws' = shoot(ws)
  /\ wop' = "shoot"
  /\ wev' = NULL
  /\ sim' = [sim EXCEPT !.paid = FALSE, !.drawn = NULL]
  /\ sop' = "shoot"
  /\ UNCHANGED lvars

NextBox ==
  \/ BoxFrame
  \/ AddCoins
  \/ BoxShoot

SpecBox == InitBox /\ [][NextBox]_vars

\* C36 as stated: whenever an interaction with the mystery box has taken
\* its cost off the coins, the player holds a temporary weapon with a fresh
\* countdown.
C36_PaidMeansGranted ==
  (sop = "frame" /\ sim.paid)
    => /\ ws.temporaryWeaponType # NULL
       /\ ws.temporaryWeaponTimer = WeaponDuration

\* what the code keeps of C36: the same when the box was closed and drew a
\* weapon the weapon system has
PaidAndDrawnMeansGranted ==
  (sop = "frame" /\ sim.paid /\ sim.drawn \in Registered)
    => /\ ws.temporaryWeaponType = sim.drawn
       /\ ws.currentWeaponType = sim.drawn
       /\ ws.temporaryWeaponTimer = WeaponDuration


(***************************************************************************)
(* The weapon loadout across the levels (Game.nextLevel, restart, mainMenu,*)
(* start and startFromLevel, src/core/Game.ts 151-190, 245-350, 553-594):  *)
(* sim holds stats.currentLevel and the game state, ws the player's weapon *)
(* system.  LevelManager.loadLevel configures zombie mode when it loads    *)
(* level 3, Player.reset calls WeaponSystem.reset, and restart and         *)
(* startFromLevel configure zombie mode once more after Player.reset.      *)
(***************************************************************************)
\* LevelManager.loadLevel, as the weapon system sees it
loadLevelWeapons(s, level) ==
  IF level = 3 THEN configureZombieMode(s) ELSE s

\* Game.init: level 1 loaded, the player constructed, the main menu shown
InitLoadout ==
  /\ ws = newWeaponSystem
  /\ wop = "new"
  /\ wev = NULL
  /\ sim = [currentLevel |-> 1, gameState |-> "MAIN_MENU"]
  /\ sop = "init"
  /\ lm = NULL
  /\ lop = NULL
  /\ ret = FALSE

DidLoadout(name, level, state, post) ==
  /\ sop' = name
  /\ wop' = name
  /\ sim' = [currentLevel |-> level, gameState |-> state]
  /\ ws' = post
  /\ wev' = NULL
  /\ UNCHANGED lvars

\* Game.start
LoadoutStart ==
  /\ sim.gameState = "MAIN_MENU"
  /\ DidLoadout("start", sim.currentLevel, "PLAYING", ws)

\* Game.startFromLevel(3), the player existing since Game.init
LoadoutStartFromLevel ==
  /\ sim.gameState = "MAIN_MENU"
  /\ DidLoadout("startFromLevel", 3, "PLAYING",
                configureZombieMode(resetWeapons(loadLevelWeapons(ws, 3))))

\* a scripted level is completed and the timeout of levelComplete runs
\* Game.nextLevel: loadLevel(next), then Player.reset
LoadoutNextLevel ==
  /\ sim.gameState = "PLAYING"
  /\ sim.currentLevel < 3
  /\ DidLoadout("nextLevel", sim.currentLevel + 1, "PLAYING",
                resetWeapons(loadLevelWeapons(ws, sim.currentLevel + 1)))

\* Game.restart: loadLevel(current), Player.reset and, on level 3,
\* configureZombieMode
LoadoutRestart ==
  /\ sim.gameState = "PLAYING"
  /\ LET loaded == resetWeapons(loadLevelWeapons(ws, sim.currentLevel))
     IN  DidLoadout("restart", sim.currentLevel, "PLAYING",
                    IF sim.currentLevel = 3 THEN configureZombieMode(loaded) ELSE loaded)

\* Game.mainMenu: loadLevel(1), Player.reset
LoadoutMainMenu ==
  /\ sim.gameState = "PLAYING"
  /\ DidLoadout("mainMenu", 1, "MAIN_MENU", resetWeapons(loadLevelWeapons(ws, 1)))

\* Player.update while playing: the stations stand on level 3 only, the
\* pickups lie on levels 1 and 2 only
LoadoutTick ==
  /\ sim.gameState = "PLAYING"
  /\ \E in \in [equip : Registered \cup {NULL},
                shoot : BOOLEAN,
                reload : BOOLEAN,
                delta : Deltas,
                pickup : IF sim.currentLevel = 3 THEN {FALSE} ELSE BOOLEAN,
                station : IF sim.currentLevel = 3
                          THEN {NULL, "ammo"} \cup MysteryBoxWeapons
                          ELSE {NULL}] :
        DidLoadout("tick", sim.currentLevel, "PLAYING", Player_updateLoadout(ws, in))

NextLoadout ==
  \/ LoadoutStart
  \/ LoadoutStartFromLevel
  \/ LoadoutNextLevel
  \/ LoadoutRestart
  \/ LoadoutMainMenu
  \/ LoadoutTick

SpecLoadout == InitLoadout /\ [][NextLoadout]_vars

\* C37: while level 3 is in play the rifle, the shotgun, the sniper rifle
\* and the machine gun have an empty magazine and an empty reserve unless
\* they are the temporary weapon, and the pistol's ammunition is finite;
\* while level 1 or 2 is in play the pistol's ammunition is infinite and no
\* temporary weapon's countdown is running.
C37_LoadoutMatchesLevel ==
  sim.gameState = "PLAYING" =>
    IF sim.currentLevel = 3
    THEN /\ \A t \in weaponsToClear \cap Registered :
              t # ws.temporaryWeaponType
                => ws.weapons[t].currentAmmo = 0 /\ ws.weapons[t].reserveAmmo = 0
         /\ ~ws.weapons["PISTOL"].infiniteAmmo
    ELSE /\ ws.weapons["PISTOL"].infiniteAmmo
         /\ ~(ws.temporaryWeaponType # NULL /\ ws.temporaryWeaponTimer > 0)

\* what holds of the loadout: a run of level 3 entered by restart or by
\* startFromLevel begins with the four weapons empty, on every level 3 run
\* the pistol's ammunition is finite, and until level 3 is entered for the
\* first time the pistol's ammunition is infinite and no temporary weapon is
\* recorded
LoadoutAfterConfigure ==
  /\ (sim.currentLevel = 3 /\ sop \in {"restart", "startFromLevel"})
       => /\ \A t \in weaponsToClear \cap Registered :
                ws.weapons[t].currentAmmo = 0 /\ ws.weapons[t].reserveAmmo = 0
          /\ ws.temporaryWeaponType = NULL
  /\ sim.currentLevel = 3 => ~ws.weapons["PISTOL"].infiniteAmmo
  /\ ~ws.isZombieMode
       => ws.weapons["PISTOL"].infiniteAmmo /\ ws.temporaryWeaponType = NULL


\* C38: a staggered spawn callback adds an enemy only to the run of level 3
\* that scheduled it: a callback that adds an enemy runs in endless mode
\* after the current run has started a wave, so that after a restart or any
\* other reload of a level the callbacks left over from the run before add
\* nothing to the new run's live list.
C38_CallbackAddsToItsOwnRun ==
  [][(lop' = "spawn" /\ lm'.enemies > lm.enemies)
       => (lm.isEndlessMode /\ lm.endlessWaveCount > 0)]_vars

\* what holds of the callbacks: one adds an enemy only while the game is
\* PLAYING and the live list is below the cap, and every load of a level
\* leaves the callbacks of the run before pending
CallbackAddsWhilePlaying ==
  [][/\ (lop' = "spawn" /\ lm'.enemies > lm.enemies)
          => (lm.gameState = "PLAYING" /\ lm.enemies < maxZombiesCap)
     /\ lop' \in {"restart", "mainMenu", "startFromLevel", "nextLevel"}
          => lm'.pending = lm.pending]_vars


\* C39: each completion of a scripted level is handled once.  The frame
\* that completes the level sets LEVEL_COMPLETE and leaves exactly one
\* timeout of levelComplete pending; while the game is LEVEL_COMPLETE no
\* frame, spawn callback, Escape or menu button changes the level, the game
\* state or the enemies or sets another timeout; the timeout runs nextLevel only in that state,
\* and nextLevel moves the current level up by exactly 1 and resumes play
\* with no timeout left.  A timeout is pending exactly while the game is
\* LEVEL_COMPLETE.
C39_LevelCompleteHandledOnce ==
  [][/\ lm'.advancing = (IF lm'.gameState = "LEVEL_COMPLETE" THEN 1 ELSE 0)
     /\ (lm.gameState # "LEVEL_COMPLETE" /\ lm'.gameState = "LEVEL_COMPLETE")
          => /\ lop' = "update"
             /\ lm.gameState = "PLAYING"
             /\ ~lm.isEndlessMode
             /\ lm'.currentLevel = lm.currentLevel
     /\ (lm.gameState = "LEVEL_COMPLETE" /\ lop' # "nextLevel")
          => lm' = [lm EXCEPT !.pending = lm'.pending]
     /\ lop' = "nextLevel"
          => /\ lm.gameState = "LEVEL_COMPLETE"
             /\ lm'.currentLevel = lm.currentLevel + 1
             /\ lm'.gameState = "PLAYING"
             /\ lm'.advancing = 0]_vars

\* level 2 is completed two times over, with a restart in between, and the
\* timeout of the second completion has started level 3
C39_Witness ==
  /\ lop = "nextLevel"
  /\ lm.currentLevel = 3
  /\ lm.gameState = "PLAYING"
  /\ lm.advancing = 0


(***************************************************************************)
(* The player's invincibility window (checked under SpecEnemy)             *)
(***************************************************************************)
\* C40: Player.takeDamage changes neither the player nor the game state
\* while the invincibility timer is above 0 or the health is 0.  A frame
\* lowers the health only if the timer, counted down by the frame, has run
\* out, and then sets it to the full invincibility duration; a frame that
\* does not lower the health only counts the timer down by its delta, and
\* the timer never exceeds the duration: two damaging hits are at least the
\* duration of tick time apart.  The game is over exactly when the health is
\* 0, and a frame ends with the game over only by taking the health from
\* above 0 to 0 (or by finding the game over and changing nothing): once per
\* life of the player.
C40_TakeDamageShielded ==
  /\ sim.p.invincibilityTimer <= InvincibilityDuration
  /\ (sim.gameState = "GAME_OVER") <=> (sim.p.health = 0)
  /\ \A amount \in {sim.e.damage, sim.p.maxHealth} :
        (sim.p.invincibilityTimer > 0 \/ sim.p.health <= 0)
          => LET after == Player_takeDamage(sim, amount)
             IN  after.p = sim.p /\ after.gameState = sim.gameState
  /\ \A delta \in Deltas, d \in Distances(sim.e.type) :
      \A r \in IF sim.e.type = "GUNNER_ZOMBIE" THEN BOOLEAN ELSE {TRUE},
         d2 \in IF sim.e.type = "BOSS" /\ sim.e.state = "ATTACK"
                THEN Distances("BOSS") ELSE {d} :
        LET after == Game_update(Fresh(sim), delta, d, r, d2)
        IN  /\ after.p.health <= sim.p.health
            /\ after.p.health < sim.p.health
                 => /\ sim.p.invincibilityTimer - delta <= 0
                    /\ after.p.invincibilityTimer = InvincibilityDuration
                    /\ sim.p.health - after.p.health <= after.pdealt
            /\ after.p.health = sim.p.health
                 => after.p.invincibilityTimer =
                      (IF sim.gameState = "PLAYING" /\ sim.p.invincibilityTimer > 0
                       THEN sim.p.invincibilityTimer - delta
                       ELSE sim.p.invincibilityTimer)
            /\ after.gameState = "GAME_OVER"
                 => \/ after = Fresh(sim)
                    \/ sim.p.health > 0 /\ after.p.health = 0

\* a frame in which the enemy called takeDamage on a living player who was
\* still invincible from a hit of an earlier frame
C40_Witness ==
  /\ sop = "update"
  /\ sim.pdealt > 0
  /\ sim.p.invincibilityTimer > 0
  /\ sim.p.invincibilityTimer < InvincibilityDuration
  /\ sim.p.health > 0
  /\ sim.p.health < sim.p.maxHealth

====
